---- MODULE Spec2Model ----
(***************************************************************************)
(* Model of the PDF assembly engine of enhanced-pdf-generator.js.          *)
(*                                                                         *)
(* Two generators live in the file:                                        *)
(*   - the v1.0.0 class (multi-page): generatePDFFromText ->               *)
(*     _processTextToLines -> _createPDFDocument -> _buildPDFFile, with    *)
(*     getPDFInfo/_validatePDFStructure as the validator;                  *)
(*   - the v2.x class (single stream): _generateStablePDF and              *)
(*     _generateContentStream.                                             *)
(*                                                                         *)
(* JavaScript strings are TLA+ strings, one character per UTF-16 code      *)
(* unit.  A Buffer is a TLA+ string too, one character per byte (the       *)
(* latin1 view of the bytes, which is what toString('binary') returns).    *)
(* Numbers are integers; the generators are exercised with integer         *)
(* options only.                                                           *)
(***************************************************************************)
EXTENDS Integers, Sequences, FiniteSets, TLC

(***************************************************************************)
(* Bounds of the model.                                                    *)
(***************************************************************************)
\* the wrapping and pagination loops are cut off once this many lines or
\* pages have been pushed (a loop that does not advance pushes for ever)
MaxPush == 8

\* the number of calls the caller starts while one call awaits
MaxConcurrent == 2

(***************************************************************************)
(* JavaScript string primitives.                                           *)
(***************************************************************************)
Min(a, b) == IF a <= b THEN a ELSE b
Max(a, b) == IF a >= b THEN a ELSE b

\* the smallest element of a non-empty set of integers
SetMin(S) == CHOOSE m \in S : \A x \in S : m <= x
SetMax(S) == CHOOSE m \in S : \A x \in S : m >= x

\* s[i] for a 0-based index i
CharAt(s, i) == SubSeq(s, i + 1, i + 1)

\* String.prototype.substring(start, end): negative arguments count as 0,
\* arguments beyond the length as the length, and a start after the end
\* swaps the two
Substring(s, start, end) ==
    LET a == Max(0, Min(Len(s), start))
        b == Max(0, Min(Len(s), end))
    IN  SubSeq(s, Min(a, b) + 1, Max(a, b))

\* Array.prototype.slice(start, end): a negative index counts from the end
Slice(arr, start, end) ==
    LET n == Len(arr)
        a == IF start < 0 THEN Max(n + start, 0) ELSE Min(start, n)
        b == IF end < 0 THEN Max(n + end, 0) ELSE Min(end, n)
    IN  SubSeq(arr, a + 1, b)

\* String.prototype.indexOf(k, from): 0-based position of the first
\* occurrence of k at or after from, -1 when there is none
IndexOfFrom(s, k, from) ==
    LET C == {i \in Max(0, from)..(Len(s) - Len(k)) : SubSeq(s, i + 1, i + Len(k)) = k}
    IN  IF C = {} THEN -1 ELSE SetMin(C)

IndexOf(s, k) == IndexOfFrom(s, k, 0)

LastIndexOf(s, k) ==
    LET C == {i \in 0..(Len(s) - Len(k)) : SubSeq(s, i + 1, i + Len(k)) = k}
    IN  IF C = {} THEN -1 ELSE SetMax(C)

Includes(s, k) == IndexOf(s, k) # -1
StartsWith(s, k) == Len(s) >= Len(k) /\ SubSeq(s, 1, Len(k)) = k
EndsWith(s, k) == Len(s) >= Len(k) /\ SubSeq(s, Len(s) - Len(k) + 1, Len(s)) = k

\* Array.prototype.join
RECURSIVE Join(_, _)
Join(arr, sep) ==
    IF Len(arr) = 0 THEN ""
    ELSE IF Len(arr) = 1 THEN arr[1]
    ELSE arr[1] \o sep \o Join(Tail(arr), sep)

\* s.replace(/c/g, r) for a single character c
RECURSIVE ReplaceAll(_, _, _)
ReplaceAll(s, c, r) ==
    IF Len(s) = 0 THEN ""
    ELSE IF Len(s) = 1 THEN (IF s = c THEN r ELSE s)
    ELSE LET half == Len(s) \div 2
         IN  ReplaceAll(SubSeq(s, 1, half), c, r)
             \o ReplaceAll(SubSeq(s, half + 1, Len(s)), c, r)

\* the characters \s matches among those the model's texts are made of
IsSpace(c) == c \in {" ", "\n", "\t", "\r"}

\* String.prototype.trim
Trim(s) ==
    LET K == {i \in 0..(Len(s) - 1) : ~IsSpace(CharAt(s, i))}
    IN  IF K = {} THEN "" ELSE SubSeq(s, SetMin(K) + 1, SetMax(K) + 1)

\* String(n) for an integer n
Digits == "0123456789"
RECURSIVE NatStr(_)
NatStr(n) ==
    IF n < 10 THEN CharAt(Digits, n)
    ELSE NatStr(n \div 10) \o CharAt(Digits, n % 10)

IntStr(n) == IF n < 0 THEN "-" \o NatStr(-n) ELSE NatStr(n)

\* String.prototype.padStart(width, '0')
RECURSIVE PadStart(_, _)
PadStart(s, width) == IF Len(s) >= width THEN s ELSE PadStart("0" \o s, width)

\* the value of a string of decimal digits (what a reader of the file
\* makes of a number written in it)
RECURSIVE ParseNat(_)
ParseNat(s) ==
    IF Len(s) = 0 THEN 0
    ELSE 10 * ParseNat(SubSeq(s, 1, Len(s) - 1))
         + IndexOf(Digits, CharAt(s, Len(s) - 1))

(***************************************************************************)
(* Buffer encodings.  The texts of the model contain, besides ASCII, the   *)
(* characters "é" (U+00E9, two bytes in UTF-8) and "Ω" (U+03A9, two bytes  *)
(* in UTF-8, and beyond the range of one latin1 byte).                     *)
(***************************************************************************)
\* Buffer.from(s, 'binary'): one byte per code unit, its low eight bits
BinaryBytes(s) == ReplaceAll(s, "Ω", "©")

\* Buffer.from(s, 'utf8')
Utf8Bytes(s) == ReplaceAll(ReplaceAll(s, "é", "Ã©"), "Ω", "Î©")

\* Buffer.from(s, 'binary').length and Buffer.byteLength(s, 'utf8')
BinaryLength(s) == Len(BinaryBytes(s))
Utf8ByteLength(s) == Len(Utf8Bytes(s))

(***************************************************************************)
(* JavaScript values that reach the option parsers.                        *)
(***************************************************************************)
Undefined == [kind |-> "undefined"]
Num(n) == [kind |-> "number", value |-> n]
\* a string that Number() turns into NaN
Str(s) == [kind |-> "string", value |-> s]
\* a margin object; each side is a JavaScript value
MarginObject(t, r, b, l) == [kind |-> "object", top |-> t, right |-> r, bottom |-> b, left |-> l]

(***************************************************************************)
(* Constants of the v1.0.0 class.                                          *)
(***************************************************************************)
PDF_VERSION == "1.4"
DEFAULT_PAGE_WIDTH == 595
DEFAULT_PAGE_HEIGHT == 842
DEFAULT_MARGIN == 50
DEFAULT_FONT_SIZE == 12
DEFAULT_LINE_HEIGHT == 15
MAX_CONTENT_SIZE == 50 * 1024 * 1024

PAGE_FORMATS ==
    [A4 |-> [width |-> 595, height |-> 842],
     LETTER |-> [width |-> 612, height |-> 792],
     LEGAL |-> [width |-> 612, height |-> 1008],
     A3 |-> [width |-> 842, height |-> 1191],
     TABLOID |-> [width |-> 792, height |-> 1224]]

LowerCase == "abcdefghijklmnopqrstuvwxyz"
UpperCase == "ABCDEFGHIJKLMNOPQRSTUVWXYZ"

\* String.prototype.toUpperCase
RECURSIVE ToUpperCase(_)
ToUpperCase(s) ==
    IF Len(s) = 0 THEN ""
    ELSE LET c == CharAt(s, 0)
             k == IndexOf(LowerCase, c)
         IN  (IF k = -1 THEN c ELSE CharAt(UpperCase, k))
             \o ToUpperCase(SubSeq(s, 2, Len(s)))

\* _validateNumber(value, defaultValue, min, max)
ValidateNumber(value, defaultValue, min, max) ==
    IF value.kind = "undefined" THEN defaultValue
    ELSE IF value.kind # "number" THEN defaultValue
    ELSE Max(min, Min(max, value.value))

\* _parseMargin(margin)
ParseMargin(margin) ==
    IF margin.kind = "number"
    THEN LET safeMargin == Max(0, Min(200, margin.value))
         IN  [top |-> safeMargin, right |-> safeMargin,
              bottom |-> safeMargin, left |-> safeMargin]
    ELSE IF margin.kind = "object"
    THEN [top |-> ValidateNumber(margin.top, DEFAULT_MARGIN, 0, 200),
          right |-> ValidateNumber(margin.right, DEFAULT_MARGIN, 0, 200),
          bottom |-> ValidateNumber(margin.bottom, DEFAULT_MARGIN, 0, 200),
          left |-> ValidateNumber(margin.left, DEFAULT_MARGIN, 0, 200)]
    ELSE [top |-> DEFAULT_MARGIN, right |-> DEFAULT_MARGIN,
          bottom |-> DEFAULT_MARGIN, left |-> DEFAULT_MARGIN]

\* options.margin || DEFAULT_MARGIN: 0 is falsy
MarginOrDefault(margin) ==
    IF margin.kind = "undefined" \/ (margin.kind = "number" /\ margin.value = 0)
    THEN Num(DEFAULT_MARGIN)
    ELSE margin

\* the constructor: the page format, when known, overrides width and height
Constructor(options) ==
    LET known == options.pageFormat.kind = "string"
                 /\ ToUpperCase(options.pageFormat.value) \in DOMAIN PAGE_FORMATS
        format == PAGE_FORMATS[ToUpperCase(options.pageFormat.value)]
        width == IF known THEN Num(format.width) ELSE options.pageWidth
        height == IF known THEN Num(format.height) ELSE options.pageHeight
    IN  [pageWidth |-> ValidateNumber(width, DEFAULT_PAGE_WIDTH, 200, 2000),
         pageHeight |-> ValidateNumber(height, DEFAULT_PAGE_HEIGHT, 200, 3000),
         margin |-> ParseMargin(MarginOrDefault(options.margin)),
         fontSize |-> ValidateNumber(options.fontSize, DEFAULT_FONT_SIZE, 6, 72),
         lineHeight |-> ValidateNumber(options.lineHeight, DEFAULT_LINE_HEIGHT, 8, 100),
         \* options.maxContentSize || MAX_CONTENT_SIZE
         maxContentSize |-> IF options.maxContentSize.kind = "number"
                               /\ options.maxContentSize.value # 0
                            THEN options.maxContentSize.value
                            ELSE MAX_CONTENT_SIZE]

\* the control characters _sanitizeString removes, among those of the model
IsControl(c) == c \in {"\n", "\t", "\r"}

RECURSIVE RemoveControl(_)
RemoveControl(s) ==
    IF Len(s) = 0 THEN ""
    ELSE (IF IsControl(CharAt(s, 0)) THEN "" ELSE CharAt(s, 0))
         \o RemoveControl(SubSeq(s, 2, Len(s)))

\* _sanitizeString(input, defaultValue)
SanitizeString(input, defaultValue) ==
    IF input.kind # "string" THEN defaultValue
    ELSE Substring(Trim(RemoveControl(input.value)), 0, 255)

\* _sanitizeOptions(options), for the fields the layout reads
SanitizeOptions(cfg, options) ==
    [title |-> SanitizeString(options.title, "Document"),
     fontSize |-> ValidateNumber(options.fontSize, cfg.fontSize, 6, 72),
     lineHeight |-> ValidateNumber(options.lineHeight, cfg.lineHeight, 8, 100),
     margin |-> ParseMargin(options.margin),
     pageWidth |-> ValidateNumber(options.pageWidth, cfg.pageWidth, 200, 2000),
     pageHeight |-> ValidateNumber(options.pageHeight, cfg.pageHeight, 200, 3000)]

\* safeOptions.title || 'Text Document'
TextTitle(safeOptions) == IF safeOptions.title = "" THEN "Text Document" ELSE safeOptions.title

(***************************************************************************)
(* _processTextToLines: the pure parts.                                    *)
(***************************************************************************)
\* maxCharsPerLine = Math.floor(maxWidth / (fontSize * 0.6)), in exact
\* arithmetic: maxWidth / (fontSize * 3 / 5)
MaxCharsPerLine(options) ==
    LET maxWidth == options.pageWidth - options.margin.left - options.margin.right
    IN  (maxWidth * 5) \div (options.fontSize * 3)

\* where a match of /\n\s*\n/ that starts at p ends (the position of its
\* last newline), -1 when there is no match at p: the greedy \s* takes the
\* whole run of white space after p and gives back down to its last newline
ParagraphBreakEnd(s, p) ==
    IF CharAt(s, p) # "\n" THEN -1
    ELSE LET run == {j \in (p + 1)..(Len(s) - 1) :
                        \A k \in (p + 1)..j : IsSpace(CharAt(s, k))}
             nl == {j \in run : CharAt(s, j) = "\n"}
         IN  IF nl = {} THEN -1 ELSE SetMax(nl)

\* text.split(/\n\s*\n/)
RECURSIVE SplitParagraphsFrom(_, _)
SplitParagraphsFrom(s, i) ==
    LET starts == {p \in i..(Len(s) - 1) : ParagraphBreakEnd(s, p) # -1}
    IN  IF starts = {} THEN <<Substring(s, i, Len(s))>>
        ELSE LET p == SetMin(starts)
             IN  <<Substring(s, i, p)>> \o SplitParagraphsFrom(s, ParagraphBreakEnd(s, p) + 1)

\* text.split(/\n\s*\n/).filter(p => p.trim().length > 0)
Paragraphs(text) == SelectSeq(SplitParagraphsFrom(text, 0), LAMBDA p : Len(Trim(p)) > 0)

\* s.split(/\s+/)
RECURSIVE SplitWhitespace(_)
SplitWhitespace(s) ==
    LET spaces == {p \in 0..(Len(s) - 1) : IsSpace(CharAt(s, p))}
    IN  IF spaces = {} THEN <<s>>
        ELSE LET p == SetMin(spaces)
                 rest == {j \in p..(Len(s) - 1) : ~IsSpace(CharAt(s, j))}
                 q == IF rest = {} THEN Len(s) ELSE SetMin(rest)
             IN  <<Substring(s, 0, p)>> \o SplitWhitespace(Substring(s, q, Len(s)))

\* paragraph.trim().split(/\s+/)
Words(paragraph) == SplitWhitespace(Trim(paragraph))

(***************************************************************************)
(* _createPDFDocument and _buildPDFFile: the multi-page object graph and   *)
(* its serialisation.                                                      *)
(***************************************************************************)
EscapeLimit == 1000

\* _escapeString(str)
EscapeString(str) ==
    IF str = "" THEN ""
    ELSE Substring(
           ReplaceAll(ReplaceAll(ReplaceAll(ReplaceAll(ReplaceAll(ReplaceAll(
             str, "\\", "\\\\"), "(", "\\("), ")", "\\)"),
             "\r", "\\r"), "\n", "\\n"), "\t", "\\t"),
           0, EscapeLimit)

\* the operators _createContentStream pushes for lines[k..], the cursor
\* being at yPosition: a line is skipped once the cursor is below the
\* bottom margin
RECURSIVE ContentLines(_, _, _, _, _)
ContentLines(pageLines, k, yPosition, isFirstLine, options) ==
    IF k > Len(pageLines) THEN <<>>
    ELSE IF yPosition < options.margin.bottom
    THEN ContentLines(pageLines, k + 1, yPosition, isFirstLine, options)
    ELSE << (IF isFirstLine
             THEN IntStr(options.margin.left) \o " " \o IntStr(yPosition) \o " Td"
             ELSE "0 -" \o IntStr(options.lineHeight) \o " Td"),
            "(" \o EscapeString(pageLines[k]) \o ") Tj" >>
         \o ContentLines(pageLines, k + 1, yPosition - options.lineHeight, FALSE, options)

\* _createContentStream(lines, options)
CreateContentStream(pageLines, options) ==
    Join(<<"BT", "/F1 " \o IntStr(options.fontSize) \o " Tf">>
         \o ContentLines(pageLines, 1,
                         options.pageHeight - options.margin.top - options.fontSize,
                         TRUE, options)
         \o <<"ET">>, "\n")

\* Object 1
CatalogContent == "<<\n/Type /Catalog\n/Pages 2 0 R\n>>"

\* pages.map((_, index) => `${3 + index * 2} 0 R`)
PageRefs(pages) == [index \in 1..Len(pages) |-> IntStr(3 + (index - 1) * 2) \o " 0 R"]

\* Object 2
PagesContent(pages) ==
    "<<\n/Type /Pages\n/Kids [" \o Join(PageRefs(pages), " ") \o "]\n/Count "
    \o IntStr(Len(pages)) \o "\n>>"

\* the font reference a Page object carries, computed when objectCount
\* objects have been pushed
FontRef(objectCount, pageCount) == objectCount + pageCount * 2 + 1

\* the Page object
PageContent(objectCount, pageCount, contentId, options) ==
    "<<\n/Type /Page\n/Parent 2 0 R\n/MediaBox [0 0 " \o IntStr(options.pageWidth)
    \o " " \o IntStr(options.pageHeight) \o "]\n/Resources <<\n  /Font <<\n    /F1 "
    \o IntStr(FontRef(objectCount, pageCount))
    \o " 0 R\n  >>\n>>\n/Contents " \o IntStr(contentId) \o " 0 R\n>>"

\* the /Length of a content stream object
StreamLength(contentStream) == Len(contentStream)

\* the Content stream object
StreamContent(contentStream) ==
    "<<\n/Length " \o IntStr(StreamLength(contentStream)) \o "\n>>\nstream\n"
    \o contentStream \o "\nendstream"

\* pages.forEach(...) from page k on: two objects per page, ids taken from
\* the running objectId
RECURSIVE AddPages(_, _, _, _, _)
AddPages(objects, objectId, pages, k, options) ==
    IF k > Len(pages) THEN objects
    ELSE LET pageId == objectId
             contentId == objectId + 1
             page == [id |-> pageId,
                      content |-> PageContent(Len(objects), Len(pages), contentId, options)]
             stream == [id |-> contentId,
                        content |-> StreamContent(CreateContentStream(pages[k], options))]
         IN  AddPages(objects \o <<page, stream>>, objectId + 2, pages, k + 1, options)

FontContent == "<<\n/Type /Font\n/Subtype /Type1\n/BaseFont /Helvetica\n>>"

\* String(n).padStart(2, '0')
Pad2(n) == PadStart(IntStr(n), 2)

\* D:YYYYMMDDHHmmSS; now.month is getMonth() + 1
PdfDate(now) ==
    "D:" \o IntStr(now.year) \o Pad2(now.month) \o Pad2(now.day)
    \o Pad2(now.hours) \o Pad2(now.minutes) \o Pad2(now.seconds)

InfoContent(title, now) ==
    "<<\n/Title (" \o EscapeString(title)
    \o ")\n/Producer (Enhanced PDF Generator v1.0.0)\n/Creator (Enhanced PDF Generator)\n/CreationDate ("
    \o PdfDate(now) \o ")\n/ModDate (" \o PdfDate(now) \o ")\n>>"

\* EnsurePage without the guard: no page is added to an empty list
EnsurePage_NoGuard(pages) == pages

\* "Ensure at least one page"
EnsurePage(pages) == IF Len(pages) = 0 THEN << <<"">> >> ELSE pages

\* the objects _createPDFDocument builds, in the order it pushes them
DocumentObjects(pages, title, options, now) ==
    LET head == << [id |-> 1, content |-> CatalogContent],
                   [id |-> 2, content |-> PagesContent(pages)] >>
        withPages == AddPages(head, 3, pages, 1, options)
        fontId == 3 + 2 * Len(pages)
    IN  withPages \o << [id |-> fontId, content |-> FontContent],
                        [id |-> fontId + 1, content |-> InfoContent(title, now)] >>

\* `${obj.id} 0 obj\n${obj.content}\nendobj\n`
ObjectText(obj) == IntStr(obj.id) \o " 0 obj\n" \o obj.content \o "\nendobj\n"

\* the header lines: the version comment and the binary comment
HeaderLines == <<"%PDF-" \o PDF_VERSION, "%âãÏÓ">>

\* currentPosition when objects[k] is reached: the header, then the text
\* of every earlier object
RECURSIVE PositionBefore(_, _)
PositionBefore(objects, k) ==
    IF k = 1 THEN BinaryLength(Join(HeaderLines, "\n") \o "\n")
    ELSE PositionBefore(objects, k - 1) + BinaryLength(ObjectText(objects[k - 1]))

\* objectPositions
ObjectPositions(objects) == [k \in 1..Len(objects) |-> PositionBefore(objects, k)]

\* xrefPosition: currentPosition after the last object
XrefPosition(objects) == PositionBefore(objects, Len(objects) + 1)

\* one in-use entry of the cross-reference table
XrefEntry(pos) == PadStart(IntStr(pos), 10) \o " 00000 n "

\* the lines of the cross-reference section
XrefLines(objects) ==
    <<"xref", "0 " \o IntStr(Len(objects) + 1), "0000000000 65535 f ">>
    \o [k \in 1..Len(objects) |-> XrefEntry(ObjectPositions(objects)[k])]

\* TrailerLines declaring the number of objects as /Size, the free entry
\* not counted
TrailerLines_SizeOffByOne(objects, infoObjectId) ==
    <<"trailer", "<<", "/Size " \o IntStr(Len(objects)), "/Root 1 0 R",
      "/Info " \o IntStr(infoObjectId) \o " 0 R", ">>",
      "startxref", IntStr(XrefPosition(objects)), "%%EOF">>

\* the lines of the trailer
TrailerLines(objects, infoObjectId) ==
    <<"trailer", "<<", "/Size " \o IntStr(Len(objects) + 1), "/Root 1 0 R",
      "/Info " \o IntStr(infoObjectId) \o " 0 R", ">>",
      "startxref", IntStr(XrefPosition(objects)), "%%EOF">>

\* _buildPDFFile writing the trailer before the cross-reference table
BuildPDFFile_TrailerFirst(objects, infoObjectId) ==
    BinaryBytes(Join(HeaderLines
                     \o [k \in 1..Len(objects) |-> ObjectText(objects[k])]
                     \o TrailerLines(objects, infoObjectId)
                     \o XrefLines(objects), "\n"))

\* _buildPDFFile(objects, infoObjectId)
BuildPDFFile(objects, infoObjectId) ==
    BinaryBytes(Join(HeaderLines
                     \o [k \in 1..Len(objects) |-> ObjectText(objects[k])]
                     \o XrefLines(objects)
                     \o TrailerLines(objects, infoObjectId), "\n"))

\* _createPDFDocument(lines, title, contentType, options), from the pages
\* the splitting loop left
CreatePDFDocument(splitPages, title, options, now) ==
    LET objects == DocumentObjects(EnsurePage(splitPages), title, options, now)
    IN  BuildPDFFile(objects, objects[Len(objects)].id)

\* the strings _validatePDFStructure requires
RequiredElements == <<"/Type /Catalog", "/Type /Pages", "/Type /Page", "xref", "trailer", "startxref">>

\* _validatePDFStructure(pdfBuffer)
ValidatePDFStructure(pdfBuffer) ==
    LET pdfString == pdfBuffer
    IN  /\ Len(pdfBuffer) >= 100
        /\ StartsWith(pdfString, "%PDF-")
        /\ Includes(pdfString, "%%EOF")
        /\ \A e \in 1..Len(RequiredElements) : Includes(pdfString, RequiredElements[e])
        /\ IndexOf(pdfString, "xref") < IndexOf(pdfString, "trailer")

(***************************************************************************)
(* The single-stream generator: _generateContentStream and                 *)
(* _generateStablePDF.  The cursor moves in half points (a line is 1.5     *)
(* times the font size high), so the numbers of the stream are kept as     *)
(* counts of half points, or NaN.                                          *)
(***************************************************************************)
NaN == [nan |-> TRUE, h |-> 0]
Half(h) == [nan |-> FALSE, h |-> h]

\* the number a JavaScript value is in arithmetic
ToNumber(v) == IF v.kind = "number" THEN Half(2 * v.value) ELSE NaN

Minus(a, b) == IF a.nan \/ b.nan THEN NaN ELSE Half(a.h - b.h)
LessThan(a, b) == ~a.nan /\ ~b.nan /\ a.h < b.h

\* `${n}` for a computed number
NumberStr(a) ==
    IF a.nan THEN "NaN"
    ELSE IF a.h % 2 = 0 THEN IntStr(a.h \div 2)
    ELSE (IF a.h < 0 THEN "-" ELSE "")
         \o NatStr((IF a.h < 0 THEN -a.h ELSE a.h) \div 2) \o ".5"

\* `${v}` for a JavaScript value
ValueStr(v) ==
    IF v.kind = "number" THEN IntStr(v.value)
    ELSE IF v.kind = "string" THEN v.value
    ELSE "undefined"

\* v || d for a numeric field: undefined and 0 are falsy
OrDefault(v, d) == IF v.kind = "number" /\ v.value # 0 THEN v.value ELSE d

\* v > 0
IsPositive(v) == v.kind = "number" /\ v.value > 0

HexLower == "0123456789abcdef"
HexUpper == "0123456789ABCDEF"

\* the value of one hexadecimal digit, -1 for another character
HexValue(c) ==
    IF Len(c) # 1 THEN -1
    ELSE IF IndexOf(HexLower, c) # -1 THEN IndexOf(HexLower, c)
    ELSE IndexOf(HexUpper, c)

\* (v / 255).toFixed(3)
ToFixed3(v) ==
    LET r == (v * 2000 + 255) \div 510
    IN  IF r >= 1000 THEN "1.000" ELSE "0." \o PadStart(IntStr(r), 3)

\* _hexToRgb(hex)
HexToRgb(hex) ==
    LET long == IF Len(hex) = 4
                THEN "#" \o CharAt(hex, 1) \o CharAt(hex, 1) \o CharAt(hex, 2)
                     \o CharAt(hex, 2) \o CharAt(hex, 3) \o CharAt(hex, 3)
                ELSE hex
        d == IF StartsWith(long, "#") /\ Len(long) > 0
             THEN Substring(long, 1, Len(long)) ELSE long
        ok == Len(d) = 6 /\ \A i \in 0..5 : HexValue(CharAt(d, i)) # -1
        channel(i) == ToFixed3(16 * HexValue(CharAt(d, i)) + HexValue(CharAt(d, i + 1)))
    IN  IF ok THEN <<channel(0), channel(2), channel(4)>>
        ELSE <<"0.000", "0.000", "0.000">>

\* _escapePDFString(str)
EscapePDFString(str) ==
    IF str = "" THEN ""
    ELSE ReplaceAll(ReplaceAll(ReplaceAll(ReplaceAll(ReplaceAll(ReplaceAll(
           str, "\\", "\\\\"), "(", "\\("), ")", "\\)"),
           "\r", " "), "\n", " "), "\t", " ")

\* a content item as _extractTextContent builds it; absent fields are
\* Undefined
Item(type, text, fontSize, color, marginTop, marginBottom) ==
    [kind |-> "object", type |-> type, text |-> text, fontSize |-> fontSize,
     color |-> color, marginTop |-> marginTop, marginBottom |-> marginBottom]

Null == [kind |-> "null"]

\* an item whose processing throws before anything is pushed: reading a
\* property of null, or calling trim on a text that is not a string
ItemThrows(item) ==
    \/ item.kind = "null"
    \/ /\ item.type # "line"
       /\ item.text.kind = "number" /\ item.text.value # 0

\* a Symbol() value
Symbol == [kind |-> "symbol"]

\* an item whose processing throws after its top margin is applied and BT
\* and Tf are pushed: _hexToRgb gives a color that is a Symbol to
\* RegExp.prototype.exec, which cannot convert it to a string
ItemThrowsLate(item) == item.kind = "object" /\ item.color.kind = "symbol"

\* item.text && item.text.trim()
HasText(item) == item.text.kind = "string" /\ Trim(item.text.value) # ""

\* Math.max(8, Math.min(24, item.fontSize || 12))
ItemFontSize(item) == Max(8, Min(24, OrDefault(item.fontSize, 12)))

\* the cursor after the top margin of a text item
AfterMarginTop(item, currentY) ==
    IF IsPositive(item.marginTop) THEN Minus(currentY, ToNumber(item.marginTop)) ELSE currentY

\* the operators pushed for a rule
RuleOperators(item, currentY, options) ==
    LET lineY == Minus(currentY, Half(2 * OrDefault(item.marginTop, 8)))
        lineX1 == options.margin.left
        lineX2 == Minus(ToNumber(options.pageWidth), ToNumber(options.margin.right))
    IN  <<"q", "0.7 0.7 0.7 RG", "1 w",
          ValueStr(lineX1) \o " " \o NumberStr(lineY) \o " m",
          NumberStr(lineX2) \o " " \o NumberStr(lineY) \o " l",
          "S", "Q">>

\* the cursor after a rule
AfterRule(item, currentY) ==
    Minus(Minus(currentY, Half(2 * OrDefault(item.marginTop, 8))),
          Half(2 * OrDefault(item.marginBottom, 8)))

\* the operators pushed for a text item, the cursor being at y after the
\* item's top margin
TextOperators(item, y, options) ==
    LET fontSize == ItemFontSize(item)
        font == IF item.type = "heading" THEN "F2" ELSE "F1"
        rgb == HexToRgb(IF item.color.kind = "string" /\ item.color.value # ""
                        THEN item.color.value ELSE "#000000")
        textY == Minus(y, Half(2 * fontSize))
    IN  <<"BT",
          "/" \o font \o " " \o IntStr(fontSize) \o " Tf",
          rgb[1] \o " " \o rgb[2] \o " " \o rgb[3] \o " rg",
          ValueStr(options.margin.left) \o " " \o NumberStr(textY) \o " Td",
          "(" \o EscapePDFString(item.text.value) \o ") Tj",
          "ET">>

\* the cursor after a text item whose bottom margin is left out
AfterText_NoMarginBottom(item, y) == Minus(y, Half(3 * ItemFontSize(item)))

\* the cursor after a text item
AfterText(item, y) ==
    LET lower == Minus(y, Half(3 * ItemFontSize(item)))
    IN  IF IsPositive(item.marginBottom) THEN Minus(lower, ToNumber(item.marginBottom))
        ELSE lower

\* no text item is ever taken to cross the bottom margin
WouldCross_Never(item, y, options) == FALSE

\* the text item would cross the bottom margin
WouldCross(item, y, options) ==
    LessThan(Minus(y, Half(3 * ItemFontSize(item))), ToNumber(options.margin.bottom))

\* the loop of _generateContentStream from item i (from 1) on, the cursor
\* being at currentY
RECURSIVE StreamFrom(_, _, _, _)
StreamFrom(content, i, currentY, options) ==
    IF i > Len(content) THEN <<>>
    ELSE LET item == content[i]
         IN  IF ItemThrows(item) THEN StreamFrom(content, i + 1, currentY, options)
             ELSE IF item.type = "line"
             THEN RuleOperators(item, currentY, options)
                  \o StreamFrom(content, i + 1, AfterRule(item, currentY), options)
             ELSE IF ~HasText(item) THEN StreamFrom(content, i + 1, currentY, options)
             ELSE LET y == AfterMarginTop(item, currentY)
                  IN  IF WouldCross(item, y, options) THEN <<>>
                      ELSE IF ItemThrowsLate(item)
                      THEN SubSeq(TextOperators(item, y, options), 1, 2)
                           \o StreamFrom(content, i + 1, y, options)
                      ELSE TextOperators(item, y, options)
                           \o StreamFrom(content, i + 1, AfterText(item, y), options)

\* _generateContentStream(content, options)
GenerateContentStream(content, options) ==
    Join(StreamFrom(content, 1,
                    Minus(ToNumber(options.pageHeight), ToNumber(options.margin.top)),
                    options), "\n")

\* the defaults of generatePDFFromHTML, overridden by the caller's options;
\* a margin object given by the caller replaces the default one whole
PdfOptions(options) ==
    [pageWidth |-> IF options.pageWidth.kind = "undefined" THEN Num(612) ELSE options.pageWidth,
     pageHeight |-> IF options.pageHeight.kind = "undefined" THEN Num(792) ELSE options.pageHeight,
     margin |-> IF options.margin.kind = "undefined"
                THEN [top |-> Num(72), right |-> Num(72), bottom |-> Num(72), left |-> Num(72)]
                ELSE [top |-> options.margin.top, right |-> options.margin.right,
                      bottom |-> options.margin.bottom, left |-> options.margin.left]]

\* streamLength counted in characters
StableStreamLength_Chars(contentStream) == Len(contentStream)

\* streamLength
StableStreamLength(contentStream) == Utf8ByteLength(contentStream)

\* pdfContent up to the cross-reference table: header and objects 1 to 4
StableObjects(contentStream, options) ==
    <<"%PDF-1.4", "",
      "1 0 obj", "<<", "/Type /Catalog", "/Pages 2 0 R", ">>", "endobj", "",
      "2 0 obj", "<<", "/Type /Pages", "/Kids [3 0 R]", "/Count 1", ">>", "endobj", "",
      "3 0 obj", "<<", "/Type /Page", "/Parent 2 0 R",
      "/MediaBox [0 0 " \o ValueStr(options.pageWidth) \o " "
          \o ValueStr(options.pageHeight) \o "]",
      "/Resources <<", "/Font <<",
      "/F1 << /Type /Font /Subtype /Type1 /BaseFont /Helvetica >>",
      "/F2 << /Type /Font /Subtype /Type1 /BaseFont /Helvetica-Bold >>",
      ">>", ">>", "/Contents 4 0 R", ">>", "endobj", "",
      "4 0 obj", "<<", "/Length " \o IntStr(StableStreamLength(contentStream)), ">>",
      "stream", contentStream, "endstream", "endobj", "">>

\* xrefPos
StableXrefPos(pdfContent) == Utf8ByteLength(Join(pdfContent, "\n") \o "\n")

\* pdfContent.findIndex(line => line === `${i} 0 obj`), from 0, -1 when absent
FindObjIndex(pdfContent, i) ==
    LET K == {j \in 1..Len(pdfContent) : pdfContent[j] = IntStr(i) \o " 0 obj"}
    IN  IF K = {} THEN -1 ELSE SetMin(K) - 1

\* objPos summed without the newline that follows each element
RECURSIVE StableObjPos_NoNewline(_, _)
StableObjPos_NoNewline(pdfContent, objIndex) ==
    IF objIndex = 0 THEN 0
    ELSE StableObjPos_NoNewline(pdfContent, objIndex - 1)
         + Utf8ByteLength(pdfContent[objIndex])

\* objPos: the bytes of the objIndex elements before the object's line,
\* each with its newline
RECURSIVE StableObjPos(_, _)
StableObjPos(pdfContent, objIndex) ==
    IF objIndex = 0 THEN 0
    ELSE StableObjPos(pdfContent, objIndex - 1)
         + Utf8ByteLength(pdfContent[objIndex] \o "\n")

\* the in-use entries pushed for objects first to 4
RECURSIVE StableXrefEntries(_, _)
StableXrefEntries(pdfContent, first) ==
    IF first > 4 THEN <<>>
    ELSE LET objIndex == FindObjIndex(pdfContent, first)
             entry == IF objIndex # -1
                      THEN <<PadStart(IntStr(StableObjPos(pdfContent, objIndex)), 10)
                             \o " 00000 n ">>
                      ELSE <<>>
         IN  entry \o StableXrefEntries(pdfContent \o entry, first + 1)

\* the trailer of the single-stream file
StableTrailer(xrefPos) ==
    <<"trailer", "<<", "/Size 5", "/Root 1 0 R", ">>", "startxref", IntStr(xrefPos), "%%EOF">>

\* _generateStablePDF(content, options)
GenerateStablePDF(content, options) ==
    LET objects == StableObjects(GenerateContentStream(content, options), options)
        withXref == objects \o <<"xref", "0 5", "0000000000 65535 f ">>
    IN  Utf8Bytes(Join(withXref
                       \o StableXrefEntries(withXref, 1)
                       \o StableTrailer(StableXrefPos(objects)), "\n"))

\* getPDFInfo(pdfBuffer).isValid of the single-stream class
StableIsValid(pdfBuffer) == Substring(pdfBuffer, 0, 8) = "%PDF-1.4"

\* linesPerPage = Math.floor(effectiveHeight / lineHeight)
LinesPerPage(options) ==
    (options.pageHeight - options.margin.top - options.margin.bottom) \div options.lineHeight

(***************************************************************************)
(* generatePDFFromHTML of the multi-page class: the title and the text it  *)
(* takes from the HTML.                                                    *)
(***************************************************************************)
\* where a match of  <\/?(name|...)[^>]*>  (flag i) starting at position i
\* of u ends (the position after its ">"), -1 when there is none; u is in
\* upper case and so are the names; no name is the start of another
TagMatchEnd(u, i, names) ==
    IF CharAt(u, i) # "<" THEN -1
    ELSE LET a == IF Substring(u, i + 1, i + 2) = "/" THEN i + 2 ELSE i + 1
             C == {n \in names : Substring(u, a, a + Len(n)) = n}
         IN  IF C = {} THEN -1
             ELSE LET n == CHOOSE m \in C : TRUE
                      g == IndexOfFrom(u, ">", a + Len(n))
                  IN  IF g = -1 THEN -1 ELSE g + 1

\* s.replace(/<\/?(name|...)[^>]*>/gi, r), from position i on
RECURSIVE ReplaceTagsFrom(_, _, _, _, _)
ReplaceTagsFrom(s, u, i, names, r) ==
    IF i >= Len(s) THEN ""
    ELSE LET e == TagMatchEnd(u, i, names)
         IN  IF e # -1 THEN r \o ReplaceTagsFrom(s, u, e, names, r)
             ELSE CharAt(s, i) \o ReplaceTagsFrom(s, u, i + 1, names, r)

ReplaceTags(s, names, r) == ReplaceTagsFrom(s, ToUpperCase(s), 0, names, r)

\* where a match of  <name[^>]*>[\s\S]*?<\/name>  (flag i) starting at
\* position i of u ends, -1 when there is none
ElementMatchEnd(u, i, name) ==
    IF Substring(u, i, i + 1 + Len(name)) # "<" \o name THEN -1
    ELSE LET g == IndexOfFrom(u, ">", i + 1 + Len(name))
             c == IF g = -1 THEN -1 ELSE IndexOfFrom(u, "</" \o name \o ">", g + 1)
         IN  IF c = -1 THEN -1 ELSE c + Len(name) + 3

\* s.replace(/<name[^>]*>[\s\S]*?<\/name>/gi, ''), from position i on
RECURSIVE RemoveElementsFrom(_, _, _, _)
RemoveElementsFrom(s, u, i, name) ==
    IF i >= Len(s) THEN ""
    ELSE LET e == ElementMatchEnd(u, i, name)
         IN  IF e # -1 THEN RemoveElementsFrom(s, u, e, name)
             ELSE CharAt(s, i) \o RemoveElementsFrom(s, u, i + 1, name)

RemoveElements(s, name) == RemoveElementsFrom(s, ToUpperCase(s), 0, name)

\* s.replace(/k/g, r) for a literal k of one character or more
RECURSIVE ReplaceLiteralFrom(_, _, _, _)
ReplaceLiteralFrom(s, i, k, r) ==
    IF i >= Len(s) THEN ""
    ELSE IF Substring(s, i, i + Len(k)) = k
         THEN r \o ReplaceLiteralFrom(s, i + Len(k), k, r)
         ELSE CharAt(s, i) \o ReplaceLiteralFrom(s, i + 1, k, r)

ReplaceLiteral(s, k, r) == ReplaceLiteralFrom(s, 0, k, r)

\* the position after the run of characters of S that starts at position i
RECURSIVE RunEnd(_, _, _)
RunEnd(s, i, S) == IF i < Len(s) /\ CharAt(s, i) \in S THEN RunEnd(s, i + 1, S) ELSE i

\* s.replace(/\n\s*\n/g, '\n\n'), from position i on: the greedy \s* takes
\* the run of whitespace and gives back up to its last newline
RECURSIVE CollapseBlankLinesFrom(_, _)
CollapseBlankLinesFrom(s, i) ==
    IF i >= Len(s) THEN ""
    ELSE LET e == RunEnd(s, i + 1, {" ", "\n", "\t", "\r"})
             N == {k \in (i + 1)..(e - 1) : CharAt(s, k) = "\n"}
         IN  IF CharAt(s, i) = "\n" /\ N # {}
             THEN "\n\n" \o CollapseBlankLinesFrom(s, SetMax(N) + 1)
             ELSE CharAt(s, i) \o CollapseBlankLinesFrom(s, i + 1)

\* s.replace(/[ \t]+/g, ' '), from position i on
RECURSIVE CollapseSpacesFrom(_, _)
CollapseSpacesFrom(s, i) ==
    IF i >= Len(s) THEN ""
    ELSE IF CharAt(s, i) \in {" ", "\t"}
         THEN " " \o CollapseSpacesFrom(s, RunEnd(s, i, {" ", "\t"}))
         ELSE CharAt(s, i) \o CollapseSpacesFrom(s, i + 1)

\* _convertHTMLToText(html)
ConvertHTMLToText(html) ==
    LET s1 == RemoveElements(html, "SCRIPT")
        s2 == RemoveElements(s1, "STYLE")
        s3 == ReplaceTags(s2, {"H1", "H2", "H3", "H4", "H5", "H6", "P", "DIV", "BR", "HR"}, "\n")
        s4 == ReplaceTags(s3, {"UL", "OL", "LI"}, "\n")
        s5 == ReplaceTags(s4, {"TABLE", "TR", "TD", "TH"}, "\n")
        s6 == ReplaceTags(s5, {""}, "")
        s7 == ReplaceLiteral(s6, "&nbsp;", " ")
        s8 == ReplaceLiteral(s7, "&amp;", "&")
        s9 == ReplaceLiteral(s8, "&lt;", "<")
        s10 == ReplaceLiteral(s9, "&gt;", ">")
        s11 == ReplaceLiteral(s10, "&quot;", "\"")
        s12 == ReplaceLiteral(s11, "&#39;", "'")
        s13 == ReplaceLiteral(s12, "&apos;", "'")
    IN  Trim(CollapseSpacesFrom(CollapseBlankLinesFrom(s13, 0), 0))

\* _extractHTMLTitle(html): the first match of  <title[^>]*>(.*?)<\/title>
\* (flag i; "." matches no line end), sanitized; Null when there is none
ExtractHTMLTitle(html) ==
    LET u == ToUpperCase(html)
        Open(i) == IndexOfFrom(u, ">", i + 6)
        Close(i) == IndexOfFrom(u, "</TITLE>", Open(i) + 1)
        Inner(i) == Substring(html, Open(i) + 1, Close(i))
        M == {i \in 0..(Len(html) - 1) :
                 /\ Substring(u, i, i + 6) = "<TITLE"
                 /\ Open(i) # -1
                 /\ Close(i) # -1
                 /\ ~Includes(Inner(i), "\n")
                 /\ ~Includes(Inner(i), "\r")}
    IN  IF M = {} THEN Null ELSE Str(SanitizeString(Str(Inner(SetMin(M))), ""))

\* this._extractHTMLTitle(htmlContent) || safeOptions.title || 'HTML Document'
HTMLTitle(html, safeOptions) ==
    IF ExtractHTMLTitle(html).kind = "string" /\ ExtractHTMLTitle(html).value # ""
    THEN ExtractHTMLTitle(html).value
    ELSE IF safeOptions.title # "" THEN safeOptions.title
    ELSE "HTML Document"

(***************************************************************************)
(* Inputs the model exercises.                                             *)
(***************************************************************************)
Opts(title, fontSize, lineHeight, margin, pageWidth, pageHeight) ==
    [title |-> title, fontSize |-> fontSize, lineHeight |-> lineHeight,
     margin |-> margin, pageWidth |-> pageWidth, pageHeight |-> pageHeight]

NoOptions == Opts(Undefined, Undefined, Undefined, Undefined, Undefined, Undefined)

\* options given to the constructor
ConstructorOptions ==
    { [pageFormat |-> Undefined, pageWidth |-> Undefined, pageHeight |-> Undefined,
       margin |-> Undefined, fontSize |-> Undefined, lineHeight |-> Undefined,
       maxContentSize |-> Undefined],
      [pageFormat |-> Str("letter"), pageWidth |-> Num(300), pageHeight |-> Num(100),
       margin |-> Num(30), fontSize |-> Num(10), lineHeight |-> Num(20),
       maxContentSize |-> Num(12)] }

\* options given to a call
CallOptions ==
    { NoOptions,
      \* 3 characters a line, 2 lines a page
      Opts(Str("My (T)\n"), Num(10), Num(10), Num(90), Num(200), Num(200)),
      \* 16 characters a line, 1 line a page
      Opts(Undefined, Num(10), Num(10),
           MarginObject(Num(95), Num(50), Num(95), Undefined), Num(200), Num(200)),
      \* a title made of a keyword of the file format
      Opts(Str("trailer"), Undefined, Undefined, Undefined, Undefined, Undefined),
      \* values outside their ranges
      Opts(Str(""), Num(500), Str("big"), Num(-5), Num(100), Num(5000)),
      \* no room at all: 0 characters a line and 0 lines a page
      Opts(Undefined, Num(10), Num(8), Num(100), Num(200), Num(200)),
      \* margins wider than the page: negative counts
      Opts(Undefined, Num(10), Num(8), Num(200), Num(200), Num(200)),
      \* 16 characters a line, 0 lines a page
      Opts(Undefined, Num(10), Num(10),
           MarginObject(Num(100), Num(50), Num(100), Num(50)), Num(200), Num(200)),
      \* 8 characters a line, 2 lines a page, the font taller than a line
      Opts(Undefined, Num(20), Num(8),
           MarginObject(Num(90), Num(50), Num(90), Num(50)), Num(200), Num(200)),
      \* 555 characters a line
      Opts(Undefined, Num(6), Undefined, Num(0), Num(2000), Undefined),
      \* 0 characters a line, 10 lines a page
      Opts(Undefined, Num(72), Num(10),
           MarginObject(Num(50), Num(100), Num(50), Num(100)), Num(200), Num(200)) }

\* s repeated n times
RECURSIVE Repeated(_, _)
Repeated(s, n) ==
    IF n = 0 THEN ""
    ELSE IF n = 1 THEN s
    ELSE Repeated(s, n \div 2) \o Repeated(s, n - n \div 2)

\* a word of 501 characters, 500 of them to be escaped
LongWord == "a" \o Repeated("(", 500)

\* texts given to generatePDFFromText
Texts ==
    { "", "  \n ", "ab cd", "aa bb cc", "abcdefgh", "aa bb\n \n\ncc dd",
      "a(b)\\c\td", "é Ω", "trailer", "xref trailer", "%%EOF startxref",
      "a b cd efg", LongWord }

\* first arguments given to generatePDFFromText
Inputs == {Null, Undefined, Num(5)} \cup {Str(t) : t \in Texts}

\* HTML given to generatePDFFromHTML of the multi-page class
HtmlInputs ==
    { Str("<p>ab</p>"),
      Str("<title>Hi</title><p>ab cd</p>"),
      Str("<TITLE> </TITLE><h1>a &amp; b</h1>x<br/>y") }

\* options given to generatePDFFromHTML of the multi-page class
HtmlCallOptions ==
    { NoOptions,
      Opts(Str("trailer"), Undefined, Undefined, Undefined, Undefined, Undefined),
      Opts(Str(""), Num(500), Str("big"), Num(-5), Num(100), Num(5000)) }

\* first arguments of the calls started while another call awaits
ConcurrentInputs == {Str("ab cd")}

\* values of the clock read for CreationDate and ModDate
Clocks ==
    { [year |-> 2024, month |-> 1, day |-> 2, hours |-> 3, minutes |-> 4, seconds |-> 5],
      [year |-> 2025, month |-> 12, day |-> 31, hours |-> 23, minutes |-> 59, seconds |-> 58] }

\* options given to the single-stream generatePDFFromHTML
StableOpts(pageWidth, pageHeight, margin) ==
    [pageWidth |-> pageWidth, pageHeight |-> pageHeight, margin |-> margin]

NoStableOptions == StableOpts(Undefined, Undefined, Undefined)

StableOptions ==
    { NoStableOptions,
      \* a page 76 points high between its margins
      StableOpts(Num(200), Num(120), MarginObject(Num(22), Num(20), Num(22), Num(20))),
      \* a margin object that names one side only
      StableOpts(Undefined, Num(400), MarginObject(Num(40), Undefined, Undefined, Undefined)) }

Heading(text) == Item("heading", Str(text), Num(15), Str("#2e2e2e"), Num(18), Num(12))
Paragraph(text) == Item("paragraph", Str(text), Num(14), Str("#2e2e2e"), Num(0), Num(4))
Rule == Item("line", Undefined, Undefined, Undefined, Num(12), Num(12))

\* item lists handed to _generateStablePDF
Contents ==
    { <<>>,
      <<Heading("Title"), Paragraph("é Ω text")>>,
      <<Paragraph("4 0 obj"), Rule, Paragraph("xref")>>,
      <<Null, Paragraph("a(b)\\c\nd"), Item("line", Undefined, Undefined, Undefined, Num(0), Undefined)>>,
      <<Item("paragraph", Str("c"), Num(40), Str("#F00"), Undefined, Undefined),
        Item("heading", Str("  "), Undefined, Undefined, Undefined, Undefined),
        Item("paragraph", Num(5), Undefined, Undefined, Undefined, Undefined),
        Item("heading", Str("trailer"), Undefined, Str("red"), Num(3), Num(0))>>,
      <<Paragraph("one"), Paragraph("two"), Paragraph("three"), Paragraph("four")>>,
      <<Paragraph("one"), Paragraph("two"), Paragraph("three"), Rule, Paragraph("five")>>,
      \* rules from  margin-top: 0  and from  margin-bottom: 0
      <<Paragraph("one"), Item("line", Undefined, Undefined, Undefined, Num(0), Num(12)),
        Paragraph("two"), Item("line", Undefined, Undefined, Undefined, Num(5), Num(0)),
        Paragraph("three")>>,
      \* an item whose color is a Symbol
      <<Paragraph("one"),
        Item("paragraph", Str("x"), Undefined, Symbol, Num(10), Num(0)),
        Paragraph("two")>> }

(***************************************************************************)
(* State.                                                                  *)
(***************************************************************************)
VARIABLES
    ctorOptions,   \* the options the instance was constructed with
    config,        \* this.config of the v1.0.0 instance
    state,         \* this.state: isProcessing, lastError, documentsGenerated
    pc,            \* where the call in progress stands
    input,         \* the first argument of the call
    options,       \* the options argument of the call
    textContent,   \* the text being laid out
    safeOptions,   \* the sanitized options of the call
    title,         \* the title of the document of the call
    now,           \* the clock value of the call
    paragraphs,    \* _processTextToLines: the paragraphs,
    index,         \*   the index of the paragraph being wrapped (from 0),
    words,         \*   its words,
    wordIndex,     \*   the index of the word being placed (from 0),
    currentLine,   \*   the line being built,
    lines,         \*   the lines pushed so far,
    splitI,        \*   i of the hard-split loop
    pages,         \* _createPDFDocument: the pages pushed so far,
    pageI,         \*   i of the page-splitting loop
    content,       \* single stream: the items handed to _generateStablePDF,
    pdfOptions,    \*   and its options
    buffer,        \* the buffer of the call ("" before it is built)
    isValid,       \* getPDFInfo(buffer).isValid, once asked
    started,       \* calls started while the call in progress awaited
    accepted,      \*   those of them that were accepted and have not settled
    previous,      \* the buffer an earlier call with the same arguments
                   \*   returned ("" when there was none)
    returned       \* the generation calls that have returned a buffer since
                   \*   the construction or the latest reset()

vars == <<ctorOptions, config, state, pc, input, options, textContent, safeOptions, title,
          now,
          paragraphs, index, words, wordIndex, currentLine, lines, splitI, pages, pageI,
          content, pdfOptions, buffer, isValid, started, accepted, previous, returned>>

wrapVars == <<paragraphs, index, words, wordIndex, currentLine, lines, splitI>>

\* what a step inside one call leaves alone
callerVars == <<ctorOptions, input, options, started, accepted, previous, returned>>

InitialState == [isProcessing |-> FALSE, lastError |-> "null", documentsGenerated |-> 0]

Init ==
    /\ ctorOptions \in ConstructorOptions
    /\ config = Constructor(ctorOptions)
    /\ state = InitialState
    /\ pc = "idle"
    /\ input = Undefined
    /\ options = NoOptions
    /\ textContent = ""
    /\ safeOptions = SanitizeOptions(config, NoOptions)
    /\ title = ""
    /\ now = CHOOSE c \in Clocks : TRUE
    /\ paragraphs = <<>>
    /\ index = 0
    /\ words = <<>>
    /\ wordIndex = 0
    /\ currentLine = ""
    /\ lines = <<>>
    /\ splitI = 0
    /\ pages = <<>>
    /\ pageI = 0
    /\ content = <<>>
    /\ pdfOptions = PdfOptions(NoStableOptions)
    /\ buffer = ""
    /\ isValid = FALSE
    /\ started = 0
    /\ accepted = 0
    /\ previous = ""
    /\ returned = 0

(***************************************************************************)
(* generatePDFFromText, step by step.                                      *)
(***************************************************************************)
\* parseFloat(x.toFixed(2)) for x = hundredths / 100
Fixed2(hundredths) ==
    LET whole == IntStr(hundredths \div 100)
        frac == hundredths % 100
    IN  IF frac = 0 THEN whole
        ELSE IF frac % 10 = 0 THEN whole \o "." \o IntStr(frac \div 10)
        ELSE whole \o "." \o PadStart(IntStr(frac), 2)

\* _formatBytes(bytes), up to the GB range
FormatBytes(bytes) ==
    IF bytes = 0 THEN "0 B"
    ELSE LET i == IF bytes < 1024 THEN 0
                  ELSE IF bytes < 1024 * 1024 THEN 1
                  ELSE IF bytes < 1024 * 1024 * 1024 THEN 2 ELSE 3
             unit == <<1, 1024, 1024 * 1024, 1024 * 1024 * 1024>>[i + 1]
         IN  Fixed2((bytes * 200 + unit) \div (2 * unit))
             \o " " \o <<"B", "KB", "MB", "GB">>[i + 1]

\* _validateInput without its check of the empty string
ValidateInputError_NoEmptyCheck(in) ==
    IF in.kind \in {"null", "undefined"} THEN "Input cannot be null or undefined"
    ELSE IF in.kind # "string" THEN "Expected string input, got " \o in.kind
    ELSE IF Len(in.value) > config.maxContentSize
    THEN "Input too large. Maximum size: " \o FormatBytes(config.maxContentSize)
    ELSE ""

\* the message _validateInput(input, 'string') throws, "" when it accepts
ValidateInputError(in) ==
    IF in.kind \in {"null", "undefined"} THEN "Input cannot be null or undefined"
    ELSE IF in.kind # "string" THEN "Expected string input, got " \o in.kind
    ELSE IF Len(in.value) = 0 THEN "Input string cannot be empty"
    ELSE IF Len(in.value) > config.maxContentSize
    THEN "Input too large. Maximum size: " \o FormatBytes(config.maxContentSize)
    ELSE ""

\* the message _checkProcessingState throws, "" when it accepts
CheckProcessingStateError ==
    IF state.isProcessing
    THEN "Generator is already processing. Please wait or create a new instance."
    ELSE ""

\* what the call throws before it is accepted, "" when it is accepted
EntryError(in) ==
    IF ValidateInputError(in) # "" THEN ValidateInputError(in)
    ELSE CheckProcessingStateError

\* a call with its own fresh locals: _validateInput, _checkProcessingState,
\* _sanitizeOptions and the paragraph split of _processTextToLines; a
\* rejected call goes through catch (_handleError) and finally
StartCall(in, opts, clock) ==
    /\ input' = in
    /\ options' = opts
    /\ now' = clock
    /\ IF EntryError(in) # ""
       THEN /\ state' = [state EXCEPT !.lastError = EntryError(in),
                                      !.isProcessing = FALSE]
            /\ pc' = "thrown"
            /\ textContent' = ""
            /\ safeOptions' = SanitizeOptions(config, NoOptions)
            /\ title' = ""
            /\ paragraphs' = <<>>
       ELSE /\ state' = [state EXCEPT !.isProcessing = TRUE]
            /\ textContent' = in.value
            /\ safeOptions' = SanitizeOptions(config, opts)
            /\ title' = TextTitle(SanitizeOptions(config, opts))
            /\ paragraphs' = Paragraphs(in.value)
            /\ pc' = "paragraph"
    /\ index' = 0
    /\ words' = <<>>
    /\ wordIndex' = 0
    /\ currentLine' = ""
    /\ lines' = <<>>
    /\ splitI' = 0
    /\ pages' = <<>>
    /\ pageI' = 0
    /\ buffer' = ""
    /\ isValid' = FALSE

\* a generatePDFFromHTML call of the multi-page class with its own fresh
\* locals: as StartCall, with the title and the text taken from the HTML
StartHTMLCall(in, opts, clock) ==
    /\ input' = in
    /\ options' = opts
    /\ now' = clock
    /\ IF EntryError(in) # ""
       THEN /\ state' = [state EXCEPT !.lastError = EntryError(in),
                                      !.isProcessing = FALSE]
            /\ pc' = "thrown"
            /\ textContent' = ""
            /\ safeOptions' = SanitizeOptions(config, NoOptions)
            /\ title' = ""
            /\ paragraphs' = <<>>
       ELSE /\ state' = [state EXCEPT !.isProcessing = TRUE]
            /\ textContent' = ConvertHTMLToText(in.value)
            /\ safeOptions' = SanitizeOptions(config, opts)
            /\ title' = HTMLTitle(in.value, SanitizeOptions(config, opts))
            /\ paragraphs' = Paragraphs(ConvertHTMLToText(in.value))
            /\ pc' = "paragraph"
    /\ index' = 0
    /\ words' = <<>>
    /\ wordIndex' = 0
    /\ currentLine' = ""
    /\ lines' = <<>>
    /\ splitI' = 0
    /\ pages' = <<>>
    /\ pageI' = 0
    /\ buffer' = ""
    /\ isValid' = FALSE

\* generatePDFFromHTML(htmlContent, options) of the multi-page class on an
\* instance at rest
GeneratePDFFromHTML ==
    /\ pc = "idle"
    /\ \E in \in HtmlInputs, opts \in HtmlCallOptions, clock \in Clocks :
         StartHTMLCall(in, opts, clock)
    /\ UNCHANGED <<ctorOptions, config, content, pdfOptions, started, accepted, previous,
                   returned>>

\* generatePDFFromText(textContent, options) on an instance at rest
GeneratePDFFromText ==
    /\ pc = "idle"
    /\ \E in \in Inputs, opts \in CallOptions, clock \in Clocks : StartCall(in, opts, clock)
    /\ UNCHANGED <<ctorOptions, config, content, pdfOptions, started, accepted, previous,
                   returned>>

\* _detectContentType(content) for a content without "<": every one of its
\* patterns needs that character, so the content is taken for text
DetectContentType(text) == IF Includes(text, "<") THEN "html" ELSE "text"

\* generatePDF(content, options) on an instance at rest: its own
\* _validateInput and catch (_handleError), then generatePDFFromText for a
\* content detected as text
GeneratePDF ==
    /\ pc = "idle"
    /\ \E in \in Inputs, opts \in CallOptions, clock \in Clocks :
         IF ValidateInputError(in) # ""
         THEN /\ input' = in
              /\ options' = opts
              /\ now' = clock
              /\ state' = [state EXCEPT !.lastError = ValidateInputError(in)]
              /\ pc' = "thrown"
              /\ UNCHANGED <<textContent, safeOptions, title, wrapVars, pages, pageI, buffer, isValid>>
         ELSE /\ DetectContentType(in.value) = "text"
              /\ StartCall(in, opts, clock)
    /\ UNCHANGED <<ctorOptions, config, content, pdfOptions, started, accepted, previous,
                   returned>>

\* the same call once more, with the arguments and the clock value of the
\* call that has returned, on the instance as that call and the calls
\* started meanwhile have left it
Repeat ==
    /\ pc = "returned"
    /\ previous = ""
    /\ accepted = 0
    /\ previous' = buffer
    /\ IF input \in HtmlInputs
       THEN StartHTMLCall(input, options, now)
       ELSE StartCall(input, options, now)
    /\ UNCHANGED <<ctorOptions, config, content, pdfOptions, started, accepted, returned>>

\* a line of exactly maxCharsPerLine characters taken as too long
Fits_Strict(testLine, maxCharsPerLine) == Len(testLine) < maxCharsPerLine

\* the line with the next word still fits
Fits(testLine, maxCharsPerLine) == Len(testLine) <= maxCharsPerLine

\* a chunk that runs one character into the next one
Chunk_Overlap(word, i, maxCharsPerLine) == Substring(word, i, i + maxCharsPerLine + 1)

\* word.substring(i, i + maxCharsPerLine)
Chunk(word, i, maxCharsPerLine) == Substring(word, i, i + maxCharsPerLine)

\* paragraphs.forEach: the next paragraph starts, after an empty line when
\* it is not the first
WrapParagraph ==
    /\ pc = "paragraph"
    /\ index < Len(paragraphs)
    /\ lines' = IF index > 0 THEN Append(lines, "") ELSE lines
    /\ words' = Words(paragraphs[index + 1])
    /\ wordIndex' = 0
    /\ currentLine' = ""
    /\ pc' = "word"
    /\ UNCHANGED <<content, pdfOptions, config, state, textContent, safeOptions, title, now, paragraphs, index,
                   splitI, pages, pageI, buffer, isValid, callerVars>>

\* words.forEach: one word is placed; a word longer than the limit enters
\* the hard-split loop
WrapWord ==
    /\ pc = "word"
    /\ wordIndex < Len(words)
    /\ LET word == words[wordIndex + 1]
           maxCharsPerLine == MaxCharsPerLine(safeOptions)
           testLine == currentLine \o (IF currentLine # "" THEN " " ELSE "") \o word
       IN  IF Fits(testLine, maxCharsPerLine)
           THEN /\ currentLine' = testLine
                /\ wordIndex' = wordIndex + 1
                /\ UNCHANGED <<lines, splitI, pc>>
           ELSE /\ lines' = IF currentLine # "" THEN Append(lines, currentLine) ELSE lines
                /\ IF Len(word) > maxCharsPerLine
                   THEN /\ splitI' = 0
                        /\ pc' = "split"
                        /\ UNCHANGED <<currentLine, wordIndex>>
                   ELSE /\ currentLine' = word
                        /\ wordIndex' = wordIndex + 1
                        /\ UNCHANGED <<splitI, pc>>
    /\ UNCHANGED <<content, pdfOptions, config, state, textContent, safeOptions, title, now, paragraphs, index,
                   words, pages, pageI, buffer, isValid, callerVars>>

\* one iteration of  for (i = 0; i < word.length; i += maxCharsPerLine)
HardSplitStep ==
    /\ pc = "split"
    /\ splitI < Len(words[wordIndex + 1])
    /\ Len(lines) < MaxPush
    /\ LET word == words[wordIndex + 1]
           maxCharsPerLine == MaxCharsPerLine(safeOptions)
       IN  /\ lines' = Append(lines, Chunk(word, splitI, maxCharsPerLine))
           /\ splitI' = splitI + maxCharsPerLine
    /\ UNCHANGED <<content, pdfOptions, config, state, pc, textContent, safeOptions, title, now, paragraphs, index,
                   words, wordIndex, currentLine, pages, pageI, buffer, isValid, callerVars>>

\* the hard-split loop is left
HardSplitEnd ==
    /\ pc = "split"
    /\ splitI >= Len(words[wordIndex + 1])
    /\ currentLine' = ""
    /\ wordIndex' = wordIndex + 1
    /\ pc' = "word"
    /\ UNCHANGED <<content, pdfOptions, config, state, textContent, safeOptions, title, now, paragraphs, index,
                   words, lines, splitI, pages, pageI, buffer, isValid, callerVars>>

\* the words of the paragraph are placed and the line being built is dropped
ParagraphEnd_NoFlush ==
    /\ pc = "word"
    /\ wordIndex >= Len(words)
    /\ lines' = lines
    /\ index' = index + 1
    /\ pc' = "paragraph"
    /\ UNCHANGED <<content, pdfOptions, config, state, textContent, safeOptions, title, now, paragraphs, words,
                   wordIndex, currentLine, splitI, pages, pageI, buffer, isValid, callerVars>>

\* the words of the paragraph are placed: the line being built is pushed
ParagraphEnd ==
    /\ pc = "word"
    /\ wordIndex >= Len(words)
    /\ lines' = IF currentLine # "" THEN Append(lines, currentLine) ELSE lines
    /\ index' = index + 1
    /\ pc' = "paragraph"
    /\ UNCHANGED <<content, pdfOptions, config, state, textContent, safeOptions, title, now, paragraphs, words,
                   wordIndex, currentLine, splitI, pages, pageI, buffer, isValid, callerVars>>

\* _processTextToLines returns; _createPDFDocument starts splitting pages
WrapEnd ==
    /\ pc = "paragraph"
    /\ index >= Len(paragraphs)
    /\ pages' = <<>>
    /\ pageI' = 0
    /\ pc' = "pages"
    /\ UNCHANGED <<content, pdfOptions, config, state, textContent, safeOptions, title, now, wrapVars, buffer,
                   isValid, callerVars>>

\* one iteration of  for (i = 0; i < lines.length; i += linesPerPage)
SplitPagesStep ==
    /\ pc = "pages"
    /\ pageI < Len(lines)
    /\ Len(pages) < MaxPush
    /\ pages' = Append(pages, Slice(lines, pageI, pageI + LinesPerPage(safeOptions)))
    /\ pageI' = pageI + LinesPerPage(safeOptions)
    /\ UNCHANGED <<content, pdfOptions, config, state, pc, textContent, safeOptions, title, now, wrapVars, buffer,
                   isValid, callerVars>>

\* a build that numbers its documents in the title
BuildDocument_Numbered ==
    /\ pc = "pages"
    /\ pageI >= Len(lines)
    /\ pages' = EnsurePage(pages)
    /\ buffer' = CreatePDFDocument(pages,
                     title \o IntStr(state.documentsGenerated),
                     safeOptions, now)
    /\ pc' = "awaiting"
    /\ UNCHANGED <<content, pdfOptions, config, state, textContent, safeOptions, title, now, wrapVars,
                   pageI, isValid, callerVars>>

\* the page-splitting loop is left: the objects are built and serialised;
\* the async _createPDFDocument returns its promise and the call suspends
\* at  await this._createPDFDocument(...)
BuildDocument ==
    /\ pc = "pages"
    /\ pageI >= Len(lines)
    /\ pages' = EnsurePage(pages)
    /\ buffer' = CreatePDFDocument(pages, title, safeOptions, now)
    /\ pc' = "awaiting"
    /\ UNCHANGED <<content, pdfOptions, config, state, textContent, safeOptions, title, now, wrapVars,
                   pageI, isValid, callerVars>>

\* the call resumes after the await and returns the buffer without
\* _updateStatistics
Resume_NotCounted ==
    /\ pc = "awaiting"
    /\ state' = [state EXCEPT !.isProcessing = FALSE]
    /\ returned' = returned + 1
    /\ pc' = "returned"
    /\ UNCHANGED <<content, pdfOptions, config, textContent, safeOptions, title, now, wrapVars,
                   pages, pageI, buffer, isValid, ctorOptions, input, options, started,
                   accepted, previous>>

\* the call resumes after the await: _updateStatistics, return pdfBuffer,
\* and finally clears isProcessing
Resume ==
    /\ pc = "awaiting"
    /\ state' = [state EXCEPT !.documentsGenerated = @ + 1, !.isProcessing = FALSE]
    /\ returned' = returned + 1
    /\ pc' = "returned"
    /\ UNCHANGED <<content, pdfOptions, config, textContent, safeOptions, title, now, wrapVars,
                   pages, pageI, buffer, isValid, ctorOptions, input, options, started,
                   accepted, previous>>

\* another generatePDFFromText call on the instance, started by the caller
\* while the call in progress is suspended at its await; it runs to its own
\* await or to its rejection. Its locals are its own: only what it does to
\* this.state is seen by the call in progress
ConcurrentCall ==
    /\ pc = "awaiting"
    /\ started < MaxConcurrent
    /\ started' = started + 1
    /\ \E in \in ConcurrentInputs :
         IF EntryError(in) # ""
         THEN /\ state' = [state EXCEPT !.lastError = EntryError(in),
                                        !.isProcessing = FALSE]
              /\ UNCHANGED accepted
         ELSE /\ state' = [state EXCEPT !.isProcessing = TRUE]
              /\ accepted' = accepted + 1
    /\ UNCHANGED <<ctorOptions, config, pc, input, options, textContent, safeOptions, title, now,
                   wrapVars, pages, pageI, content, pdfOptions, buffer, isValid, previous,
                   returned>>

\* an accepted concurrent call resumes after its await, in the order of the
\* awaits: after the call that suspended first
ConcurrentResume ==
    /\ pc \in {"returned", "checked"}
    /\ accepted > 0
    /\ accepted' = accepted - 1
    /\ state' = [state EXCEPT !.documentsGenerated = @ + 1, !.isProcessing = FALSE]
    /\ returned' = returned + 1
    /\ UNCHANGED <<ctorOptions, config, pc, input, options, textContent, safeOptions, title, now,
                   wrapVars, pages, pageI, content, pdfOptions, buffer, isValid, started,
                   previous>>

\* reset(), called while the repeated call awaits, after the calls the
\* caller starts meanwhile
Reset ==
    /\ pc = "awaiting"
    /\ previous # ""
    /\ started >= MaxConcurrent
    /\ state # InitialState
    /\ state' = InitialState
    /\ returned' = 0
    /\ UNCHANGED <<ctorOptions, config, pc, input, options, textContent, safeOptions, title, now,
                   wrapVars, pages, pageI, content, pdfOptions, buffer, isValid, started,
                   accepted, previous>>

\* getPDFInfo(pdfBuffer) on the buffer the call returned
GetPDFInfo ==
    /\ pc = "returned"
    /\ isValid' = ValidatePDFStructure(buffer)
    /\ pc' = "checked"
    /\ UNCHANGED <<content, pdfOptions, config, state, textContent, safeOptions, title, now, wrapVars, pages,
                   pageI, buffer, callerVars>>

(***************************************************************************)
(* The single-stream generatePDFFromHTML, from the items its extractor     *)
(* produced, and its getPDFInfo.                                           *)
(***************************************************************************)
GenerateStable ==
    /\ pc = "idle"
    /\ \E items \in Contents, opts \in StableOptions :
         /\ content' = items
         /\ pdfOptions' = PdfOptions(opts)
         /\ buffer' = GenerateStablePDF(items, PdfOptions(opts))
    /\ pc' = "stableReturned"
    /\ UNCHANGED <<config, state, textContent, safeOptions, title, now, wrapVars, pages, pageI, isValid,
                   callerVars>>

\* the same single-stream call once more
RepeatStable ==
    /\ pc = "stableReturned"
    /\ previous = ""
    /\ previous' = buffer
    /\ buffer' = GenerateStablePDF(content, pdfOptions)
    /\ UNCHANGED <<ctorOptions, config, state, pc, input, options, textContent, safeOptions, title, now,
                   wrapVars, pages, pageI, content, pdfOptions, isValid, started, accepted,
                   returned>>

GetPDFInfoStable ==
    /\ pc = "stableReturned"
    /\ isValid' = StableIsValid(buffer)
    /\ pc' = "stableChecked"
    /\ UNCHANGED <<config, state, textContent, safeOptions, title, now, wrapVars, pages, pageI,
                   content, pdfOptions, buffer, callerVars>>

Next ==
    \/ GeneratePDFFromText
    \/ GeneratePDFFromHTML
    \/ GeneratePDF
    \/ Repeat
    \/ WrapParagraph
    \/ WrapWord
    \/ HardSplitStep
    \/ HardSplitEnd
    \/ ParagraphEnd
    \/ WrapEnd
    \/ SplitPagesStep
    \/ BuildDocument
    \/ Resume
    \/ ConcurrentCall
    \/ ConcurrentResume
    \/ Reset
    \/ GetPDFInfo
    \/ GenerateStable
    \/ RepeatStable
    \/ GetPDFInfoStable

Spec == Init /\ [][Next]_vars

(***************************************************************************)
(* Reading a returned buffer back, the way a PDF reader finds its parts.   *)
(* No text the generators write can hold a raw newline (they escape or     *)
(* replace it), so a keyword alone on its line is a keyword of the file.   *)
(***************************************************************************)
MultiPageDone == pc \in {"returned", "checked"}
SingleStreamDone == pc \in {"stableReturned", "stableChecked"}

\* the number of occurrences of k in s
CountOf(s, k) == Cardinality({i \in 0..(Len(s) - Len(k)) : SubSeq(s, i + 1, i + Len(k)) = k})

\* where the xref keyword of the cross-reference section begins
XrefKeywordPos(buf) == LastIndexOf(buf, "\nxref\n") + 1

\* where the line after "xref" (the subsection header "0 k") ends
XrefHeaderEnd(buf) == IndexOfFrom(buf, "\n", XrefKeywordPos(buf) + 5)

\* k of the subsection header: the number of entries, the free one included
XrefDeclaredCount(buf) ==
    ParseNat(Substring(buf, XrefKeywordPos(buf) + 7, XrefHeaderEnd(buf)))

\* entry N of the table (entry 0 is the free head), 20 bytes each
XrefEntryText(buf, N) ==
    Substring(buf, XrefHeaderEnd(buf) + 1 + 20 * N, XrefHeaderEnd(buf) + 1 + 20 * N + 20)

\* the offset written in the entry of object N
XrefOffset(buf, N) == ParseNat(Substring(XrefEntryText(buf, N), 0, 10))

\* the number written on the line after startxref
StartxrefValue(buf) ==
    LET p == LastIndexOf(buf, "\nstartxref\n") + 11
    IN  ParseNat(Substring(buf, p, IndexOfFrom(buf, "\n", p)))

\* the text between the trailer keyword and startxref
TrailerText(buf) ==
    Substring(buf, LastIndexOf(buf, "\ntrailer\n") + 9, LastIndexOf(buf, "\nstartxref\n"))

\* where the line "N 0 obj" begins, -1 when the file has no such line
ObjectPos(buf, N) ==
    LET p == IndexOf(buf, "\n" \o IntStr(N) \o " 0 obj\n")
    IN  IF p = -1 THEN -1 ELSE p + 1

\* the text of object N between its "N 0 obj" line and its endobj line
ObjectDict(buf, N) ==
    LET p == ObjectPos(buf, N)
        from == p + Len(IntStr(N)) + 7
    IN  IF p = -1 THEN "" ELSE Substring(buf, from, IndexOfFrom(buf, "\nendobj\n", from - 1))

\* what object N is, from the first key of its dictionary
Kind(buf, N) ==
    LET d == ObjectDict(buf, N)
    IN  IF StartsWith(d, "<<\n/Type /Catalog\n") THEN "Catalog"
        ELSE IF StartsWith(d, "<<\n/Type /Pages\n") THEN "Pages"
        ELSE IF StartsWith(d, "<<\n/Type /Page\n") THEN "Page"
        ELSE IF StartsWith(d, "<<\n/Type /Font\n") THEN "Font"
        ELSE IF StartsWith(d, "<<\n/Length ") THEN "Stream"
        ELSE IF StartsWith(d, "<<\n/Title (") THEN "Info"
        ELSE "none"

\* the id of the reference "key N 0 R" in a dictionary text
RefAfter(d, key) ==
    LET p == IndexOf(d, key) + Len(key)
    IN  ParseNat(Substring(d, p, IndexOfFrom(d, " 0 R", p)))

\* the ids listed in /Kids [...]
KidsIds(d) ==
    LET p == IndexOf(d, "/Kids [") + 7
        tokens == SplitWhitespace(Substring(d, p, IndexOfFrom(d, "]", p)))
    IN  [j \in 1..(Len(tokens) \div 3) |-> ParseNat(tokens[3 * j - 2])]

\* the /Count of the Pages object
PagesCount(d) ==
    LET p == IndexOf(d, "/Count ") + 7
    IN  ParseNat(Substring(d, p, IndexOfFrom(d, "\n", p)))

\* the /Length written in stream object N
DeclaredLength(buf, N) ==
    LET d == ObjectDict(buf, N)
    IN  ParseNat(Substring(d, 11, IndexOfFrom(d, "\n", 11)))

\* the number of bytes between the end of line after "stream" and the end
\* of line before "endstream" of stream object N
StreamBodyBytes(buf, N) ==
    LET bodyStart == IndexOfFrom(buf, "\nstream\n", ObjectPos(buf, N)) + 8
    IN  IndexOfFrom(buf, "\nendstream\n", bodyStart) - bodyStart

\* the ids of the objects of the file
ObjectIds(buf) == 1..(XrefDeclaredCount(buf) - 1)

(***************************************************************************)
(* Properties.                                                             *)
(***************************************************************************)

\* C1: in a buffer of the multi-page generator, the offset written in the
\* xref entry of every object N equals the byte position at which the line
\* "N 0 obj" begins.
C1_MultiPageXrefOffsets ==
    MultiPageDone =>
        \A N \in ObjectIds(buffer) : XrefOffset(buffer, N) = ObjectPos(buffer, N)

\* C2: in a buffer of the single-stream generator, the offset written in
\* the xref entry of each of the objects 1..4 equals the byte position at
\* which the line "N 0 obj" begins, whatever the text of the content stream.
C2_SingleStreamXrefOffsets ==
    SingleStreamDone =>
        \A N \in 1..4 : /\ ObjectPos(buffer, N) # -1
                        /\ XrefOffset(buffer, N) = ObjectPos(buffer, N)

\* a single-stream buffer whose content stream shows a text that reads
\* like an object header
C2_Witness ==
    /\ pc = "stableReturned"
    /\ Includes(buffer, "(4 0 obj) Tj")
    /\ XrefOffset(buffer, 4) = ObjectPos(buffer, 4)

\* C3: in a buffer of either generator, the number on the line after
\* startxref equals the byte offset at which the xref keyword of the
\* cross-reference section begins.
C3_StartxrefPointsAtXref ==
    (MultiPageDone \/ SingleStreamDone) =>
        StartxrefValue(buffer) = XrefKeywordPos(buffer)

\* C4: in a buffer of either generator, the /Length of every content
\* stream object equals the number of bytes of its stream body in the
\* buffer, multi-byte characters included.
C4_StreamLengthIsByteLength ==
    (MultiPageDone \/ SingleStreamDone) =>
        \A N \in ObjectIds(buffer) :
            Kind(buffer, N) = "Stream" =>
                DeclaredLength(buffer, N) = StreamBodyBytes(buffer, N)

\* a single-stream buffer whose stream shows characters of two bytes each
C4_Witness ==
    /\ pc = "stableReturned"
    /\ Includes(buffer, "(Ã© Î© text) Tj")
    /\ Kind(buffer, 4) = "Stream"
    /\ StreamBodyBytes(buffer, 4) > 0

\* C5: in a buffer of the multi-page generator every indirect reference
\* names an object of the file that is of the referenced kind: Catalog
\* /Pages, each of /Kids, each Page's /Parent, /Contents and /F1, and the
\* trailer's /Root and /Info.
C5_ReferencesResolve ==
    MultiPageDone =>
        /\ Kind(buffer, RefAfter(ObjectDict(buffer, 1), "/Pages ")) = "Pages"
        /\ \A j \in DOMAIN KidsIds(ObjectDict(buffer, 2)) :
               Kind(buffer, KidsIds(ObjectDict(buffer, 2))[j]) = "Page"
        /\ \A N \in ObjectIds(buffer) :
               Kind(buffer, N) = "Page" =>
                   /\ Kind(buffer, RefAfter(ObjectDict(buffer, N), "/Parent ")) = "Pages"
                   /\ Kind(buffer, RefAfter(ObjectDict(buffer, N), "/Contents ")) = "Stream"
                   /\ Kind(buffer, RefAfter(ObjectDict(buffer, N), "/F1 ")) = "Font"
        /\ Kind(buffer, RefAfter(TrailerText(buffer), "/Root ")) = "Catalog"
        /\ Kind(buffer, RefAfter(TrailerText(buffer), "/Info ")) = "Info"

\* the number of pages L lines make at perPage lines a page
ExpectedPages(L, perPage) == IF L = 0 THEN 1 ELSE (L + perPage - 1) \div perPage

\* C6: a document of the multi-page generator has at least one page; the
\* /Count of its Pages object, the number of its /Kids and the number of
\* its Page objects all equal max(1, ceil(L / linesPerPage)) for the L
\* lines of the breaker; zero lines give one page holding one empty line.
C6_PageCount ==
    MultiPageDone =>
        LET d == ObjectDict(buffer, 2)
            expected == ExpectedPages(Len(lines), LinesPerPage(safeOptions))
        IN  /\ expected >= 1
            /\ PagesCount(d) = expected
            /\ Len(KidsIds(d)) = expected
            /\ Cardinality({N \in ObjectIds(buffer) : Kind(buffer, N) = "Page"}) = expected
            /\ Len(pages) = expected
            /\ Len(lines) = 0 => pages = << <<"">> >>

\* a document of two pages, the second one not full
C6_Witness ==
    /\ pc = "returned"
    /\ Len(lines) = 3
    /\ LinesPerPage(safeOptions) = 2
    /\ PagesCount(ObjectDict(buffer, 2)) = 2

\* C7: the objects of a multi-page file carry the ids 1..n in file order,
\* none repeated or skipped (1 the Catalog, 2 the Pages, n the Info); the
\* xref section is the free head entry followed by exactly n in-use
\* entries; the trailer declares /Size n+1, /Root 1 0 R and /Info n 0 R.
C7_SequentialIds ==
    MultiPageDone =>
        LET n == CountOf(buffer, " 0 obj\n")
        IN  /\ \A N \in 1..n : CountOf(buffer, "\n" \o IntStr(N) \o " 0 obj\n") = 1
            /\ \A N \in 1..(n - 1) : ObjectPos(buffer, N) < ObjectPos(buffer, N + 1)
            /\ Kind(buffer, 1) = "Catalog"
            /\ Kind(buffer, 2) = "Pages"
            /\ Kind(buffer, n) = "Info"
            /\ XrefDeclaredCount(buffer) = n + 1
            /\ XrefEntryText(buffer, 0) = "0000000000 65535 f \n"
            /\ \A N \in 1..n : Substring(XrefEntryText(buffer, N), 10, 20) = " 00000 n \n"
            /\ Substring(buffer, XrefHeaderEnd(buffer) + 1 + 20 * (n + 1),
                         XrefHeaderEnd(buffer) + 1 + 20 * (n + 1) + 8) = "trailer\n"
            /\ StartsWith(TrailerText(buffer),
                          "<<\n/Size " \o IntStr(n + 1) \o "\n/Root 1 0 R\n/Info "
                          \o IntStr(n) \o " 0 R\n>>")

\* a file of three pages: ten objects
C7_Witness ==
    /\ pc = "returned"
    /\ Len(pages) = 3
    /\ CountOf(buffer, " 0 obj\n") = 10
    /\ Kind(buffer, 10) = "Info"

\* C8: the validator accepts every buffer the multi-page generator
\* returns, also when the text or the title holds a keyword of the format.
C8_ValidatorAcceptsOutput == pc = "checked" => isValid

\* C9: every returned buffer begins with %PDF-1.4, ends with %%EOF and
\* has exactly one cross-reference section, laid out as the xref keyword,
\* then the trailer keyword, then the startxref keyword, all after the
\* last endobj.
C9_FileLayout ==
    (MultiPageDone \/ SingleStreamDone) =>
        LET lastEndobj == LastIndexOf(buffer, "\nendobj\n")
            xref == IndexOf(buffer, "\nxref\n")
            trailer == IndexOf(buffer, "\ntrailer\n")
            startxref == IndexOf(buffer, "\nstartxref\n")
        IN  /\ StartsWith(buffer, "%PDF-1.4")
            /\ EndsWith(buffer, "\n%%EOF")
            /\ CountOf(buffer, "\nxref\n") = 1
            /\ CountOf(buffer, "\ntrailer\n") = 1
            /\ CountOf(buffer, "\nstartxref\n") = 1
            /\ lastEndobj # -1
            /\ lastEndobj < xref
            /\ xref < trailer
            /\ trailer < startxref

\* a multi-page buffer whose text names keywords of the format
C9_Witness ==
    /\ pc = "returned"
    /\ textContent = "%%EOF startxref"
    /\ Includes(buffer, "(%%EOF startxref) Tj")
    /\ EndsWith(buffer, "\n%%EOF")

\* C10: the hard-split loop of _processTextToLines and the page-splitting
\* loop of _createPDFDocument advance by at least 1 at every iteration,
\* whatever the sanitized options.
C10_LoopsAdvance ==
    [][/\ (pc = "split" /\ pc' = "split") => splitI' >= splitI + 1
       /\ (pc = "pages" /\ pc' = "pages") => pageI' >= pageI + 1]_vars

\* the number of accepted calls that have not settled
InFlight ==
    (IF pc \in {"paragraph", "word", "split", "pages", "awaiting"} THEN 1 ELSE 0) + accepted

\* C11: isProcessing serialises the generation calls of an instance: a
\* call started while an accepted call has not settled is rejected, so at
\* most one accepted call is in flight.
C11_OneCallInFlight == InFlight <= 1

\* the call in progress is one of the multi-page generator
MultiPageCall ==
    pc \in {"thrown", "paragraph", "word", "split", "pages", "awaiting", "returned", "checked"}

\* the input is null, undefined, not a string, empty or too long
InvalidInput ==
    \/ input.kind # "string"
    \/ Len(input.value) = 0
    \/ Len(input.value) > config.maxContentSize

\* the words the message of the rejection holds
RejectionPhrase ==
    IF input.kind \in {"null", "undefined"} THEN "cannot be null"
    ELSE IF input.kind # "string" THEN "Expected string"
    ELSE IF Len(input.value) = 0 THEN "cannot be empty"
    ELSE "too large"

\* C12: a null, undefined, non-string, empty or too long input is rejected
\* by a throw before any layout or assembly step: no buffer is returned,
\* documentsGenerated is unchanged and lastError records the failure.
C12_InvalidInputRejected ==
    /\ [](MultiPageCall /\ InvalidInput =>
            /\ pc = "thrown"
            /\ Includes(state.lastError, RejectionPhrase)
            /\ buffer = ""
            /\ paragraphs = <<>> /\ lines = <<>> /\ pages = <<>>)
    /\ [][pc' = "thrown" => state'.documentsGenerated = state.documentsGenerated]_vars

\* an input longer than the instance's maxContentSize was rejected
C12_Witness ==
    /\ pc = "thrown"
    /\ input.kind = "string"
    /\ Len(input.value) > config.maxContentSize
    /\ Includes(state.lastError, "too large. Maximum size: 12 B")
    /\ state.documentsGenerated = 0
    /\ buffer = ""

\* a call that was accepted
AcceptedCall ==
    pc \in {"paragraph", "word", "split", "pages", "awaiting", "returned", "checked"}

\* the value of lo..hi nearest to v
Nearest(v, lo, hi) == IF v < lo THEN lo ELSE IF v > hi THEN hi ELSE v

\* the value to use for a supplied one: the nearest of its range when it
\* is a number, the default otherwise
ValueToUse(supplied, default, lo, hi) ==
    IF supplied.kind = "number" THEN Nearest(supplied.value, lo, hi) ELSE default

\* the value supplied for one side by a margin option: a number stands for
\* every side
SideOf(margin, side) ==
    IF margin.kind = "number" THEN margin
    ELSE IF margin.kind = "object" THEN margin[side]
    ELSE Undefined

\* C13: the value used for layout lies in the option's range: the nearest
\* bound for a supplied value outside it, the default for a value that is
\* absent or not a number (the constructor's value for a per-call option,
\* the constant for a constructor option); no call is rejected for such a
\* value.
C13_OptionsClamped ==
    AcceptedCall =>
        /\ safeOptions.fontSize =
               ValueToUse(options.fontSize,
                          ValueToUse(ctorOptions.fontSize, DEFAULT_FONT_SIZE, 6, 72), 6, 72)
        /\ safeOptions.lineHeight =
               ValueToUse(options.lineHeight,
                          ValueToUse(ctorOptions.lineHeight, DEFAULT_LINE_HEIGHT, 8, 100), 8, 100)
        /\ safeOptions.pageWidth = ValueToUse(options.pageWidth, config.pageWidth, 200, 2000)
        /\ safeOptions.pageHeight = ValueToUse(options.pageHeight, config.pageHeight, 200, 3000)
        /\ config.pageWidth \in 200..2000
        /\ config.pageHeight \in 200..3000
        /\ \A side \in {"top", "right", "bottom", "left"} :
               safeOptions.margin[side] =
                   ValueToUse(SideOf(options.margin, side),
                              ValueToUse(SideOf(ctorOptions.margin, side), DEFAULT_MARGIN, 0, 200),
                              0, 200)

\* a + b for numbers of the cursor arithmetic
Plus(a, b) == IF a.nan \/ b.nan THEN NaN ELSE Half(a.h + b.h)

\* the text blocks of an item list
IsTextBlock(item) == item.kind = "object" /\ item.type # "line"
TextBlocks(items) == SelectSeq(items, IsTextBlock)

\* marginTop + 1.5 x the clamped fontSize + marginBottom
BlockHeight(item) ==
    Plus(Plus(ToNumber(item.marginTop), Half(3 * ItemFontSize(item))),
         ToNumber(item.marginBottom))

\* the sum of the heights of the first n blocks
RECURSIVE TotalHeight(_, _)
TotalHeight(blocks, n) ==
    IF n = 0 THEN Half(0) ELSE Plus(TotalHeight(blocks, n - 1), BlockHeight(blocks[n]))

\* the same sum without the bottom margin of the last block: the height
\* down to the foot of the last line of text
HeightToLastLine(blocks) ==
    IF Len(blocks) = 0 THEN Half(0)
    ELSE Minus(TotalHeight(blocks, Len(blocks)), ToNumber(blocks[Len(blocks)].marginBottom))

\* pageHeight - margin.top - margin.bottom
AvailableHeight(opts) ==
    Minus(Minus(ToNumber(opts.pageHeight), ToNumber(opts.margin.top)),
          ToNumber(opts.margin.bottom))

\* the number of text blocks in the content stream of a single-stream file
EmittedBlocks(buf) == CountOf(buf, "\nBT\n")

\* header, four objects, xref, trailer and %%EOF
StableWellFormed(buf) ==
    /\ StartsWith(buf, "%PDF-1.4\n")
    /\ \A N \in 1..4 : ObjectPos(buf, N) # -1
    /\ CountOf(buf, " 0 obj\n") = 4
    /\ CountOf(buf, "\nxref\n") = 1
    /\ CountOf(buf, "\ntrailer\n") = 1
    /\ EndsWith(buf, "\n%%EOF")

\* C14 as stated: when the sum of the block heights, each with both its
\* margins, exceeds pageHeight - margin.top - margin.bottom, fewer text
\* blocks are in the content stream than were supplied and the buffer is
\* well-formed.
C14_TruncationAsStated ==
    SingleStreamDone =>
        /\ StableWellFormed(buffer)
        /\ LessThan(AvailableHeight(pdfOptions),
                    TotalHeight(TextBlocks(content), Len(TextBlocks(content))))
               => EmittedBlocks(buffer) < Len(TextBlocks(content))

\* C14: when the height down to the foot of the last line of text (the sum
\* of the block heights less the bottom margin of the last block) exceeds
\* pageHeight - margin.top - margin.bottom, fewer text blocks are in the
\* content stream than were supplied; the buffer is well-formed in every
\* case.
C14_Truncation ==
    SingleStreamDone =>
        /\ StableWellFormed(buffer)
        /\ LessThan(AvailableHeight(pdfOptions), HeightToLastLine(TextBlocks(content)))
               => EmittedBlocks(buffer) < Len(TextBlocks(content))

\* four paragraphs of 25 points each on a page 76 points high: three are
\* shown
C14_Witness ==
    /\ pc = "stableReturned"
    /\ Len(content) = 4
    /\ \A i \in 1..4 : IsTextBlock(content[i]) /\ BlockHeight(content[i]) = Half(50)
    /\ AvailableHeight(pdfOptions) = Half(152)
    /\ EmittedBlocks(buffer) = 3
    /\ StableWellFormed(buffer)

\* the lines of a text
LinesOf(s) ==
    LET nl == {p \in 0..(Len(s) - 1) : CharAt(s, p) = "\n"}
        nth(k) == CHOOSE p \in nl : Cardinality({q \in nl : q < p}) = k - 1
        n == Cardinality(nl)
    IN  [k \in 1..(n + 1) |->
            Substring(s, IF k = 1 THEN 0 ELSE nth(k - 1) + 1,
                         IF k = n + 1 THEN Len(s) ELSE nth(k))]

\* the lines of the content stream of the single-stream file (object 4)
StreamLines(buf) ==
    LET bodyStart == IndexOfFrom(buf, "\nstream\n", ObjectPos(buf, 4)) + 8
    IN  LinesOf(Substring(buf, bodyStart, IndexOfFrom(buf, "\nendstream\n", bodyStart - 1)))

\* the number an operand of the content stream reads as
ParseNumber(t) ==
    IF t = "NaN" \/ t = "undefined" THEN NaN
    ELSE LET negative == StartsWith(t, "-")
             digits == IF negative THEN Substring(t, 1, Len(t)) ELSE t
             half == EndsWith(digits, ".5")
             whole == IF half THEN Substring(digits, 0, Len(digits) - 2) ELSE digits
             h == 2 * ParseNat(whole) + (IF half THEN 1 ELSE 0)
         IN  Half(IF negative THEN -h ELSE h)

\* the vertical positions at which the stream draws: the y of every "x y Td"
\* and of every "x y m"
DrawnYs(buf) ==
    LET ls == StreamLines(buf)
    IN  {ParseNumber(SplitWhitespace(ls[k])[2]) :
            k \in {j \in DOMAIN ls : ~StartsWith(ls[j], "(")
                                    /\ (EndsWith(ls[j], " Td") \/ EndsWith(ls[j], " m"))}}

\* the text blocks that can be shown: the others are skipped
Showable(item) ==
    IsTextBlock(item) /\ ~ItemThrows(item) /\ HasText(item) /\ ~ItemThrowsLate(item)

\* the positions in the list of its showable text blocks, in order
ShowablePositions(items) == {i \in DOMAIN items : Showable(items[i])}

\* the number of rules among the first n items
RulesBefore(items, n) ==
    Cardinality({i \in 1..n : items[i].kind = "object" /\ items[i].type = "line"})

\* C15: no operator of the content stream draws below margin.bottom, and
\* once a text item would cross the bottom margin neither it nor any later
\* item, text or rule, is emitted.
C15_BottomMarginGuard ==
    SingleStreamDone =>
        LET shown == EmittedBlocks(buffer)
            P == ShowablePositions(content)
            \* the position of the first text block that was not shown
            stop == IF shown < Cardinality(P)
                    THEN CHOOSE i \in P : Cardinality({j \in P : j < i}) = shown
                    ELSE Len(content) + 1
        IN  /\ \A y \in DrawnYs(buffer) : ~LessThan(y, ToNumber(pdfOptions.margin.bottom))
            /\ CountOf(buffer, "\nS\n") = RulesBefore(content, stop - 1)

\* C16: with maxCharsPerLine >= 1, no line of _processTextToLines is longer
\* than maxCharsPerLine, and a word whose addition makes the line exactly
\* maxCharsPerLine long stays on that line.
C16_LineWrappingBound ==
    /\ [](AcceptedCall /\ MaxCharsPerLine(safeOptions) >= 1 =>
            /\ \A k \in DOMAIN lines : Len(lines[k]) <= MaxCharsPerLine(safeOptions)
            /\ Len(currentLine) <= MaxCharsPerLine(safeOptions))
    /\ [][(/\ pc = "word"
           /\ wordIndex < Len(words)
           /\ MaxCharsPerLine(safeOptions) >= 1
           /\ Len(currentLine \o (IF currentLine # "" THEN " " ELSE "") \o words[wordIndex + 1])
                  = MaxCharsPerLine(safeOptions))
          => /\ currentLine' = currentLine \o (IF currentLine # "" THEN " " ELSE "")
                                    \o words[wordIndex + 1]
             /\ lines' = lines]_vars

\* limit 3: "a b" is filled to the limit by its second word, "efg" is a
\* word of exactly the limit
C16_Witness ==
    /\ pc = "pages"
    /\ MaxCharsPerLine(safeOptions) = 3
    /\ textContent = "a b cd efg"
    /\ lines = <<"a b", "cd", "efg">>

\* C17: a word of w > maxCharsPerLine = m >= 1 characters is emitted as
\* ceil(w / m) consecutive lines of exactly m characters each, but for the
\* last, whose concatenation is the word; the line being built before the
\* word is pushed first, as a line of its own.
C17_HardSplit ==
    (/\ pc = "split"
     /\ MaxCharsPerLine(safeOptions) >= 1
     /\ splitI >= Len(words[wordIndex + 1])) =>
        LET word == words[wordIndex + 1]
            m == MaxCharsPerLine(safeOptions)
            k == (Len(word) + m - 1) \div m
            n == Len(lines)
        IN  /\ Len(word) > m
            /\ n >= k
            /\ \A j \in 1..(k - 1) : Len(lines[n - k + j]) = m
            /\ Len(lines[n]) \in 1..m
            /\ Join(SubSeq(lines, n - k + 1, n), "") = word
            /\ currentLine # "" => n > k /\ lines[n - k] = currentLine

\* limit 4: "xref" was being built when "trailer" came
C17_Witness ==
    /\ pc = "split"
    /\ MaxCharsPerLine(safeOptions) = 4
    /\ words[wordIndex + 1] = "trailer"
    /\ currentLine = "xref"
    /\ lines = <<"xref", "trai", "ler">>

\* the character an escape sequence stands for
UnescapeChar(c) ==
    IF c = "n" THEN "\n" ELSE IF c = "r" THEN "\r" ELSE IF c = "t" THEN "\t" ELSE c

\* reading the inside of a literal, a backslash having just been read when
\* pending: the characters it stands for (out), whether it ends on a
\* backslash that escapes nothing (pending), and whether it is free of
\* unescaped parentheses (ok)
RECURSIVE Unescape(_, _)
Unescape(s, pending) ==
    IF Len(s) = 0 THEN [out |-> "", pending |-> pending, ok |-> TRUE]
    ELSE IF Len(s) = 1
    THEN IF pending THEN [out |-> UnescapeChar(s), pending |-> FALSE, ok |-> TRUE]
         ELSE IF s = "\\" THEN [out |-> "", pending |-> TRUE, ok |-> TRUE]
         ELSE [out |-> s, pending |-> FALSE, ok |-> s \notin {"(", ")"}]
    ELSE LET half == Len(s) \div 2
             L == Unescape(SubSeq(s, 1, half), pending)
             R == Unescape(SubSeq(s, half + 1, Len(s)), L.pending)
         IN  [out |-> L.out \o R.out, pending |-> R.pending, ok |-> L.ok /\ R.ok]

\* the literal (escaped) is well-formed and stands for the characters of
\* expected
RoundTrip(escaped, expected) ==
    LET u == Unescape(escaped, FALSE)
    IN  u.ok /\ ~u.pending /\ u.out = expected

\* CR, LF and Tab as the single-stream mode shows them
AsSpaces(s) == ReplaceAll(ReplaceAll(ReplaceAll(s, "\r", " "), "\n", " "), "\t", " ")

\* C18: in both modes the literal written for a string is well-formed (no
\* unescaped parenthesis inside, no escape sequence cut) and un-escaping it
\* gives the characters of the string back, CR, LF and Tab being spaces in
\* the single-stream mode; for the lines and the title of a multi-page
\* document and the texts of a single-stream one, whatever their length.
C18_EscapingRoundTrip ==
    /\ MultiPageDone =>
           /\ \A p \in DOMAIN pages : \A k \in DOMAIN pages[p] :
                  RoundTrip(EscapeString(pages[p][k]), pages[p][k])
           /\ RoundTrip(EscapeString(title), title)
    /\ SingleStreamDone =>
           \A i \in DOMAIN content :
               Showable(content[i]) =>
                   RoundTrip(EscapePDFString(content[i].text.value),
                             AsSpaces(content[i].text.value))

C20_ConstructorMarginIsDefault ==
    AcceptedCall /\ options.margin.kind = "undefined"
        => safeOptions.margin = config.margin

\* a generatePDFFromHTML call of the multi-page class has returned
HTMLCallDone == MultiPageDone /\ input \in HtmlInputs

\* the title the Info object of the buffer holds: the literal after /Title,
\* un-escaped
InfoTitle(buf) ==
    LET a == IndexOf(buf, "/Title (") + 8
        b == IndexOfFrom(buf, ")\n/Producer", a)
    IN  Unescape(Substring(buf, a, b), FALSE).out

\* C21: in a document generatePDFFromHTML of the multi-page class returned,
\* the /Title of the Info object is the title option the caller gave
\* (sanitized) when the caller gave one, and the text of the <title> element
\* only when no title option was given.
C21_TitlePrecedence ==
    HTMLCallDone =>
        InfoTitle(buffer) =
            IF options.title.kind = "string" /\ SanitizeString(options.title, "") # ""
            THEN SanitizeString(options.title, "")
            ELSE IF ExtractHTMLTitle(input.value).kind = "string"
                    /\ ExtractHTMLTitle(input.value).value # ""
                 THEN ExtractHTMLTitle(input.value).value
            ELSE InfoTitle(buffer)

\* the operands of the positioning operators of the content stream: the x
\* and y of every "x y Td", "x y m" and "x y l"
DrawnCoordinates(buf) ==
    LET ls == StreamLines(buf)
        K == {j \in DOMAIN ls : /\ ~StartsWith(ls[j], "(")
                                /\ \/ EndsWith(ls[j], " Td")
                                   \/ EndsWith(ls[j], " m")
                                   \/ EndsWith(ls[j], " l")}
    IN  UNION {{ParseNumber(SplitWhitespace(ls[k])[1]),
                ParseNumber(SplitWhitespace(ls[k])[2])} : k \in K}

\* C22: in the single-stream generatePDFFromHTML every side of the margin
\* the layout uses is a number (the caller's, or 72 for a side the caller
\* left out), and every coordinate written to the content stream and to
\* the MediaBox is a defined number.
C22_MarginSidesDefault ==
    SingleStreamDone =>
        /\ \A side \in {"top", "right", "bottom", "left"} :
               pdfOptions.margin[side].kind = "number"
        /\ \A c \in DrawnCoordinates(buffer) : ~c.nan
        /\ ~Includes(buffer, "/MediaBox [0 0 undefined")
        /\ ~Includes(buffer, " undefined]")

\* the string literals the file shows from position from on, in file
\* order: its lines "(...) Tj"
RECURSIVE ShownFrom(_, _)
ShownFrom(buf, from) ==
    LET p == IndexOfFrom(buf, "\n(", from)
        e == IndexOfFrom(buf, "\n", p + 1)
        l == Substring(buf, p + 1, e)
    IN  IF p = -1 \/ e = -1 THEN <<>>
        ELSE (IF EndsWith(l, ") Tj") THEN <<l>> ELSE <<>>) \o ShownFrom(buf, e)

ShownLiterals(buf) == ShownFrom(buf, 0)

\* the lines of the pages, in page order
RECURSIVE Flatten(_)
Flatten(seqs) == IF Len(seqs) = 0 THEN <<>> ELSE Head(seqs) \o Flatten(Tail(seqs))

\* C23: the multi-page variant loses no line: with room for one line or
\* more on a page, the lines the page splitter put on pages 1..P are, in
\* order, the lines of the line breaker, and the literals shown by the Tj
\* operators of the returned document, in page order, are these lines
\* escaped, one Tj for each; the bottom-margin skip of _createContentStream
\* drops none.
C23_NoLineLost ==
    MultiPageDone /\ LinesPerPage(safeOptions) >= 1 /\ Len(lines) > 0 =>
        /\ Flatten(pages) = lines
        /\ ShownLiterals(buffer) =
               [k \in 1..Len(lines) |-> BinaryBytes("(" \o EscapeString(lines[k]) \o ") Tj")]

\* the positioning lines of the content stream whose operator is one of
\* ops, in stream order
PositionLines(buf, ops) ==
    LET IsPosition(l) == /\ ~StartsWith(l, "(")
                         /\ \E op \in ops : EndsWith(l, " " \o op)
    IN  SelectSeq(StreamLines(buf), IsPosition)

\* the k-th of the showable text blocks of the item list: its position
ShowablePosition(items, k) ==
    CHOOSE i \in ShowablePositions(items) :
        Cardinality({j \in ShowablePositions(items) : j < i}) = k - 1

\* both margins of the item are numbers and none is negative
NonNegativeMargins(item) ==
    /\ item.marginTop.kind = "number" /\ item.marginTop.value >= 0
    /\ item.marginBottom.kind = "number" /\ item.marginBottom.value >= 0

\* no rule stands between positions a and b of the item list, and no item
\* whose processing throws after it moved the cursor
NoRuleBetween(items, a, b) ==
    \A j \in (a + 1)..(b - 1) :
        ~(items[j].kind = "object" /\ (items[j].type = "line" \/ ItemThrowsLate(items[j])))

\* C24: single-stream cursor arithmetic, read from the content stream: each
\* text block is positioned at x = margin.left; the first one, with no rule
\* before it, at y = pageHeight - margin.top - marginTop - f; a text block
\* that follows another with no rule between them at y = (the cursor before
\* the earlier block) - (marginTop + 1.5 f + marginBottom of the earlier
\* block) - marginTop - f, for blocks with non-negative margins and f the
\* fontSize clamped to 8..24 (12 when absent); blocks that are skipped move
\* nothing; and the positions drawn at never go up in stream order.
C24_CursorArithmetic ==
    SingleStreamDone =>
        LET tds == PositionLines(buffer, {"Td"})
            all == PositionLines(buffer, {"Td", "m"})
            X(k) == SplitWhitespace(tds[k])[1]
            Y(k) == ParseNumber(SplitWhitespace(tds[k])[2])
            block(k) == content[ShowablePosition(content, k)]
            F(k) == Half(2 * ItemFontSize(block(k)))
            before(k) == Plus(Plus(Y(k), F(k)), ToNumber(block(k).marginTop))
            start == Minus(ToNumber(pdfOptions.pageHeight), ToNumber(pdfOptions.margin.top))
        IN  /\ Len(tds) <= Cardinality(ShowablePositions(content))
            /\ \A k \in 1..Len(tds) :
                   /\ X(k) = ValueStr(pdfOptions.margin.left)
                   /\ NonNegativeMargins(block(k)) =>
                          /\ (k = 1 /\ NoRuleBetween(content, 0, ShowablePosition(content, 1)))
                                 => before(k) = start
                          /\ (/\ k > 1
                              /\ NonNegativeMargins(block(k - 1))
                              /\ NoRuleBetween(content, ShowablePosition(content, k - 1),
                                               ShowablePosition(content, k)))
                                 => before(k) = Minus(before(k - 1), BlockHeight(block(k - 1)))
            /\ \A j \in 1..(Len(all) - 1) :
                   ~LessThan(ParseNumber(SplitWhitespace(all[j])[2]),
                             ParseNumber(SplitWhitespace(all[j + 1])[2]))

\* a heading (fontSize 15, margins 18 and 12) at y = 720 - 18 - 15 = 687 and
\* the paragraph after it (fontSize 14, margins 0 and 4) at
\* y = 720 - 52.5 - 14 = 653.5, on the default page
C24_Witness ==
    /\ pc = "stableReturned"
    /\ content = <<Heading("Title"), Paragraph("é Ω text")>>
    /\ PositionLines(buffer, {"Td"}) = <<"72 687 Td", "72 653.5 Td">>

\* the positions of the rules in the item list, and the r-th of them
RulePositions(items) ==
    {i \in DOMAIN items : items[i].kind = "object" /\ items[i].type = "line"}

RulePosition(items, r) ==
    CHOOSE i \in RulePositions(items) :
        Cardinality({j \in RulePositions(items) : j < i}) = r - 1

\* the cursor before the k-th text block shown in the returned buffer, from
\* where the block was positioned: y + f + marginTop
CursorBeforeBlock(k) ==
    LET item == content[ShowablePosition(content, k)]
    IN  Plus(Plus(ParseNumber(SplitWhitespace(PositionLines(buffer, {"Td"})[k])[2]),
                  Half(2 * ItemFontSize(item))),
             ToNumber(item.marginTop))

\* the Y at which the r-th rule of the returned buffer is drawn
RuleY(r) == ParseNumber(SplitWhitespace(PositionLines(buffer, {"m"})[r])[2])

\* C25: a rule with margins t >= 0 and b >= 0 (0 included) is drawn at
\* Y = (the cursor before the rule) - t, from x = margin.left to
\* x = pageWidth - margin.right, between q and Q, and leaves the cursor at
\* Y - b: read from the content stream, with the cursor before the rule
\* taken from the text block (or the top of the page) before it and the
\* cursor after it from the text block positioned next.
C25_RuleMargins ==
    SingleStreamDone =>
        LET ms == PositionLines(buffer, {"m"})
            ls == PositionLines(buffer, {"l"})
            shown == Len(PositionLines(buffer, {"Td"}))
            start == Minus(ToNumber(pdfOptions.pageHeight), ToNumber(pdfOptions.margin.top))
            Nth(i) == Cardinality({j \in ShowablePositions(content) : j <= i})
        IN  \A r \in 1..Len(ms) :
                LET i == RulePosition(content, r)
                    rule == content[i]
                    t == ToNumber(rule.marginTop)
                    b == ToNumber(rule.marginBottom)
                    earlier == {j \in ShowablePositions(content) :
                                   j < i /\ NoRuleBetween(content, j, i)}
                    later == {j \in ShowablePositions(content) :
                                 j > i /\ NoRuleBetween(content, i, j)}
                IN  NonNegativeMargins(rule) =>
                        /\ Includes(buffer,
                               "\nq\n0.7 0.7 0.7 RG\n1 w\n"
                               \o ValueStr(pdfOptions.margin.left) \o " " \o NumberStr(RuleY(r))
                               \o " m\n"
                               \o NumberStr(Minus(ToNumber(pdfOptions.pageWidth),
                                                  ToNumber(pdfOptions.margin.right)))
                               \o " " \o NumberStr(RuleY(r)) \o " l\nS\nQ\n")
                        /\ (earlier = {} /\ NoRuleBetween(content, 0, i))
                               => RuleY(r) = Minus(start, t)
                        /\ (earlier # {} /\ NonNegativeMargins(content[SetMax(earlier)]))
                               => RuleY(r) =
                                      Minus(Minus(CursorBeforeBlock(Nth(SetMax(earlier))),
                                                  BlockHeight(content[SetMax(earlier)])), t)
                        /\ (later # {} /\ Nth(SetMin(later)) <= shown
                            /\ NonNegativeMargins(content[SetMin(later)]))
                               => CursorBeforeBlock(Nth(SetMin(later))) = Minus(RuleY(r), b)

\* _processTextToLines has returned: lines is its result
LinesDone == pc \in {"pages", "awaiting", "returned", "checked"}

\* C26: greedy packing: with maxCharsPerLine >= 1, for any two consecutive
\* lines A, B of one paragraph (no empty line between them) the first word
\* or chunk of B did not fit after A:
\* length(A) + 1 + length(first word or chunk of B) > maxCharsPerLine, also
\* when A is the last chunk of a hard-split word.
C26_GreedyPacking ==
    LinesDone /\ MaxCharsPerLine(safeOptions) >= 1 =>
        \A k \in 1..(Len(lines) - 1) :
            lines[k] # "" /\ lines[k + 1] # "" =>
                Len(lines[k]) + 1 + Len(SplitWhitespace(lines[k + 1])[1])
                    > MaxCharsPerLine(safeOptions)

\* C27: only the call that set isProcessing clears it: a rejected call
\* leaves the flag as it found it, so the flag is true exactly while an
\* accepted call on the instance has not settled.
C27_FlagTracksCalls ==
    /\ [](state.isProcessing <=> InFlight > 0)
    /\ [][pc' = "thrown" => state'.isProcessing = state.isProcessing]_vars

\* C28: state.documentsGenerated is the number of generation calls that
\* have returned a buffer since the construction or the latest reset(): a
\* call that is rejected leaves it unchanged, a generatePDF call counts
\* once, and calls that overlap each count once.
C28_StatisticsCounter ==
    /\ [](state.documentsGenerated = returned)
    /\ [][pc' = "thrown" => state'.documentsGenerated = state.documentsGenerated]_vars

\* a repeated call returns its buffer after a reset() made while it awaited
\* and is the one document counted, the first call having been counted
\* before the reset()
C28_Witness ==
    /\ pc = "returned"
    /\ previous # ""
    /\ started >= 1
    /\ state.lastError = "null"
    /\ returned = 1
    /\ state.documentsGenerated = 1

\* s without its whitespace
StripSpace(s) == ReplaceAll(ReplaceAll(ReplaceAll(ReplaceAll(s, " ", ""), "\n", ""), "\t", ""), "\r", "")

\* the positions of the empty lines among the lines, and the j-th of them
EmptyLines(ls) == {k \in DOMAIN ls : ls[k] = ""}

EmptyLine(ls, j) ==
    CHOOSE k \in EmptyLines(ls) : Cardinality({e \in EmptyLines(ls) : e < k}) = j - 1

\* the lines between the (j-1)-th and the j-th empty line: those of the
\* j-th of n paragraphs
ParagraphLines(ls, j, n) ==
    SubSeq(ls, IF j = 1 THEN 1 ELSE EmptyLine(ls, j - 1) + 1,
               IF j = n THEN Len(ls) ELSE EmptyLine(ls, j) - 1)

\* C29: line breaking preserves content: with maxCharsPerLine >= 1 the
\* lines, joined and with their whitespace removed, are the text with its
\* whitespace removed; one empty line stands between the lines of
\* consecutive non-blank paragraphs, none before the first or after the
\* last, and the lines between two empty lines hold the characters of their
\* paragraph.
C29_ContentPreserved ==
    LinesDone /\ MaxCharsPerLine(safeOptions) >= 1 =>
        LET n == Len(Paragraphs(textContent))
        IN  /\ StripSpace(Join(lines, "")) = StripSpace(textContent)
            /\ n = 0 => lines = <<>>
            /\ n > 0 =>
                   /\ Cardinality(EmptyLines(lines)) = n - 1
                   /\ \A k \in EmptyLines(lines) :
                          k # 1 /\ k # Len(lines) /\ (k + 1) \notin EmptyLines(lines)
                   /\ \A j \in 1..n :
                          StripSpace(Join(ParagraphLines(lines, j, n), ""))
                              = StripSpace(Paragraphs(textContent)[j])

\* two paragraphs of two words, three characters a line: four lines and
\* the empty line between the paragraphs
C29_Witness ==
    /\ LinesDone
    /\ MaxCharsPerLine(safeOptions) = 3
    /\ textContent = "aa bb\n \n\ncc dd"
    /\ lines = <<"aa", "bb", "", "cc", "dd">>

\* an item the emitter is to pass over: one whose processing raises an
\* error, or a text block whose text is empty or blank
BadItem(item) ==
    \/ ItemThrows(item)
    \/ ItemThrowsLate(item)
    \/ IsTextBlock(item) /\ ~HasText(item)

GoodItem(item) == ~BadItem(item)

\* the lines of the sequence that are one of the two operators open and
\* close alternate, from an open to a close
Bracketed(ls, open, close) ==
    LET IsBracket(l) == l \in {open, close}
        bs == SelectSeq(ls, IsBracket)
    IN  /\ Len(bs) % 2 = 0
        /\ \A k \in DOMAIN bs : bs[k] = IF k % 2 = 1 THEN open ELSE close

\* C30: the single-stream emitter isolates bad items: the buffer returned
\* for an item list is the buffer returned for the list without its bad
\* items (an item that raises an error, or has an empty or blank text, adds
\* no operator and moves nothing for the items after it), and in its
\* content stream BT/ET and q/Q alternate and are balanced.
C30_BadItemsIsolated ==
    SingleStreamDone =>
        /\ buffer = GenerateStablePDF(SelectSeq(content, GoodItem), pdfOptions)
        /\ Bracketed(StreamLines(buffer), "BT", "ET")
        /\ Bracketed(StreamLines(buffer), "q", "Q")

====
